---------------------------- MODULE Spec2Model ----------------------------
(***************************************************************************)
(* A model of the Farcaster Plinko voucher lifecycle:                      *)
(*   - the Outcome Generator  (server/lib/plinko.ts, PlinkoSimulator),     *)
(*   - the Quota Ledger       (server/lib/plinko.ts, RedisTicketManager),  *)
(*   - the draw request       (routes, POST /api/drop) with the Voucher    *)
(*     Issuer (server/lib/crypto.ts) and the Voucher Ledger (storage.ts),  *)
(*   - the Redemption Validator (contracts/ClaimVault.sol).                *)
(* Three specifications share the module: SpecSim (the pure simulator),    *)
(* SpecQuota (the server) and SpecVault (the contract).  Each leaves the   *)
(* variables of the other two untouched.                                   *)
(***************************************************************************)
EXTENDS Integers, Sequences, FiniteSets, TLC

VARIABLES
    \* ---- Outcome Generator (SpecSim)
    seedArg,        \* the argument of simulateDrop: a string or Undefined
    drops,          \* the DropResults returned by the successive invocations with seedArg
    streams,        \* history: the values rng() returned to each of these invocations
    checks,         \* the DropResults passed to validateDropResult and what the draw does next
    \* ---- Redemption Validator (SpecVault)
    signer,         \* ClaimVault.signer
    paused,         \* Pausable._paused
    redeemed,       \* ClaimVault.redeemed: the voucher hashes mapped to true
    totalRedeemed,  \* ClaimVault.totalRedeemed
    totalVouchers,  \* ClaimVault.totalVouchers
    usdcBalance,    \* usdc.balanceOf, for the vault and the voucher holders
    blockTime,      \* block.timestamp
    vLast,          \* the last transaction sent to the vault and how it ended
    okCount,        \* history: successful redeems per voucher hash (saturates at 2)
    \* ---- Quota Ledger and draw requests (SpecQuota, SpecDraw)
    redisUp,        \* environment: the Redis server answers commands
    redisAvailable, \* RedisTicketManager.redisAvailable
    pinged,         \* the constructor's redis.ping() has settled
    redisStore,     \* the keys in Redis: ticket count and the instant the TTL runs out
    memoryStore,    \* RedisTicketManager.memoryStore
    clock,          \* Date.now(), in milliseconds
    req,            \* the callers in flight and the await each is suspended at
    dropHistory,    \* rows of the drop_history table
    vouchers,       \* rows of the vouchers table
    qLast,          \* history: the last ticket manager call that returned at this clock
    run,            \* history: the consumeTicket calls made in a row on one record
    drawLast,       \* history: how the last POST /api/drop that ended did end
    drawsOk,        \* history: the POST /api/drop requests answered with a result
    calm,           \* history: no fault, ticket read or clock step so far
    \* ---- POST /api/admin/reset-tickets (SpecAdmin)
    adminSecret,    \* process.env.ADMIN_SECRET
    adminLast,      \* history: the last answer of the administrative endpoint
    \* ---- the two stores side by side (SpecEquiv)
    both,           \* history: what the shared and the local store answered to the last call
    \* ---- Voucher Ledger (SpecLedger); its vouchers table is `vouchers`
    users,          \* rows of the users table
    lLast,          \* history: the last call of the storage layer and how it ended
    \* ---- one window of the Quota Ledger (SpecWindow)
    wins,           \* history: per store, the consumeTicket calls that returned true
    \* ---- Redemption Validator, further histories
    reentry,        \* history: the redeem the token made during the last transfer
    starved,        \* history: commitments rejected with InsufficientFunds, not redeemed since
    \* ---- settlement of a redemption (SpecSettle)
    onChain,        \* nonces of the ledger's vouchers redeemed at the validator
    shown           \* the voucher list in the client's state

simVars == <<seedArg, drops, streams, checks>>
vaultVars == <<signer, paused, redeemed, totalRedeemed, totalVouchers, usdcBalance,
               blockTime, vLast, okCount>>

quotaVars == <<redisUp, redisAvailable, pinged, redisStore, memoryStore, clock,
               req, dropHistory, vouchers, qLast, run, drawLast, drawsOk, calm>>
adminVars == <<adminSecret, adminLast>>
ledgerVars == <<users, lLast>>
moreVars == <<reentry, starved, onChain, shown>>
restVars == <<both, ledgerVars, wins, moreVars>>
vars == <<simVars, vaultVars, quotaVars, adminVars, restVars>>

-----------------------------------------------------------------------------
(***************************************************************************)
(* Bounds of the model.                                                    *)
(***************************************************************************)
MaxSeedLen == 6         \* longest seed string tried
MaxTime == 2            \* last block timestamp reached
MaxDeposits == 2        \* the reserve never holds more than this many deposits
MaxRun == 5             \* consumeTicket calls counted in one run
MaxDraws == 4           \* POST /api/drop requests made
MaxTicks == 3           \* clock steps taken
MaxChecks == 2          \* DropResults passed to validateDropResult
MaxLedgerTicks == 1     \* clock steps taken while the storage layer is followed

Min(a, b) == IF a <= b THEN a ELSE b

-----------------------------------------------------------------------------
(***************************************************************************)
(*                         OUTCOME GENERATOR                               *)
(***************************************************************************)
BOARD_WIDTH == 7
BOARD_HEIGHT == 8
PEG_SPACING == 1

PRIZE_DISTRIBUTION ==
    << [min |-> 1,  max |-> 5,   weight |-> 40],
       [min |-> 6,  max |-> 15,  weight |-> 30],
       [min |-> 16, max |-> 35,  weight |-> 20],
       [min |-> 36, max |-> 65,  weight |-> 8],
       [min |-> 66, max |-> 100, weight |-> 2] >>

\* The modulus of the seeded generator.  A value r returned by rng() is kept
\* as the integer numerator n of r = n / RNG_MOD (Math.random samples too).
RNG_MOD == 233280
RNG_MUL == 9301
RNG_INC == 49297

\* The optional argument seed?: string, either undefined or a string given as
\* the sequence of its char codes.
Undefined == [defined |-> FALSE, chars |-> << >>]
Str(chars) == [defined |-> TRUE, chars |-> chars]

\* Char codes of the seed alphabet: "a" and "z".
SeedChars == {97, 122}
SeedStrings == UNION { [1..n -> SeedChars] : n \in 0..MaxSeedLen }
SeedArgs == { Str(cs) : cs \in SeedStrings } \cup {Undefined}

\* JavaScript truthiness of the optional string argument: undefined and the
\* empty string are falsy.
Truthy(seed) == seed.defined /\ Len(seed.chars) > 0

\* hash = ((hash << 5) - hash) + char; hash = hash & hash
\* i.e. ToInt32(31 * hash + char).  The 32-bit value is kept as two 16-bit
\* halves so that no intermediate product leaves the checker's integers.
RECURSIVE SeedHashHalves(_, _, _)
SeedHashHalves(seed, i, h) ==
    IF i > Len(seed.chars) THEN h
    ELSE LET lo == h.lo * 31 + seed.chars[i]
             hi == h.hi * 31 + (lo \div 65536)
         IN SeedHashHalves(seed, i + 1, [hi |-> hi % 65536, lo |-> lo % 65536])

ToInt32(h) == IF h.hi >= 32768 THEN (h.hi - 65536) * 65536 + h.lo
              ELSE h.hi * 65536 + h.lo

\* (a * RNG_MUL) mod RNG_MOD for 0 <= a < RNG_MOD
MulMod(a) == (((a * 9000) % RNG_MOD) + (a * (RNG_MUL - 9000))) % RNG_MOD

\* hash = (hash * 9301 + 49297) % 233280 on JavaScript numbers: the product is
\* exact (below 2^53) and % takes the sign of the dividend.
LcgNext(hash) ==
    IF hash >= 0
    THEN (MulMod(hash % RNG_MOD) + RNG_INC) % RNG_MOD
    ELSE IF hash >= -5
    THEN hash * RNG_MUL + RNG_INC
    ELSE LET abs == (RNG_MOD - (hash % RNG_MOD)) % RNG_MOD   \* |hash| mod RNG_MOD
         IN  0 - ((MulMod(abs) + RNG_MOD - RNG_INC) % RNG_MOD)

\* createSeededRandom: the closure's initial hash
createSeededRandom(seed) == ToInt32(SeedHashHalves(seed, 1, [hi |-> 0, lo |-> 0]))

\* the first n values the closure returns, as numerators over RNG_MOD
RECURSIVE SeededStream(_, _)
SeededStream(hash, n) ==
    IF n = 0 THEN << >>
    ELSE LET nxt == LcgNext(hash) IN << nxt >> \o SeededStream(nxt, n - 1)

\* Math.floor(r * k) for r = num / RNG_MOD
FloorMul(num, k) == (num * k) \div RNG_MOD

RECURSIVE TotalWeightFrom(_)
TotalWeightFrom(i) ==
    IF i > Len(PRIZE_DISTRIBUTION) THEN 0
    ELSE PRIZE_DISTRIBUTION[i].weight + TotalWeightFrom(i + 1)

\* (mutant) the loop stops at the first tier with randomWeight < currentWeight
RECURSIVE PrizeTierBelow(_, _, _, _)
PrizeTierBelow(w, u, i, currentWeight) ==
    IF i > Len(PRIZE_DISTRIBUTION) THEN 1
    ELSE LET tier == PRIZE_DISTRIBUTION[i]
             cw == currentWeight + tier.weight
         IN IF w * TotalWeightFrom(1) < cw * RNG_MOD
            THEN FloorMul(u, tier.max - tier.min + 1) + tier.min
            ELSE PrizeTierBelow(w, u, i + 1, cw)

\* the tier loop of calculatePrize: randomWeight = w / RNG_MOD * totalWeight
RECURSIVE PrizeTier(_, _, _, _)
PrizeTier(w, u, i, currentWeight) ==
    IF i > Len(PRIZE_DISTRIBUTION) THEN 1
    ELSE LET tier == PRIZE_DISTRIBUTION[i]
             cw == currentWeight + tier.weight
         IN IF w * TotalWeightFrom(1) <= cw * RNG_MOD
            THEN FloorMul(u, tier.max - tier.min + 1) + tier.min
            ELSE PrizeTier(w, u, i + 1, cw)

\* (mutant) the slot the ball landed in is added to the prize
calculatePrizeBySlot(slot, w, u) == PrizeTier(w, u, 1, 0) + slot

\* calculatePrize(slot, rng): w and u are the next two values of rng
calculatePrize(slot, w, u) == PrizeTier(w, u, 1, 0)

\* (mutant) the ball moves at every row, past the edges of the board too
RECURSIVE DropPathUnclamped(_, _, _)
DropPathUnclamped(rs, row, currentX) ==
    IF row >= BOARD_HEIGHT THEN << >>
    ELSE LET direction == IF 2 * rs[row + 1] < RNG_MOD THEN "left" ELSE "right"
             x == IF direction = "left" THEN currentX - 1 ELSE currentX + 1
         IN << [x |-> x * PEG_SPACING, y |-> row * PEG_SPACING, direction |-> direction] >>
            \o DropPathUnclamped(rs, row + 1, x)

\* the row loop of simulateDrop
RECURSIVE DropPath(_, _, _)
DropPath(rs, row, currentX) ==
    IF row >= BOARD_HEIGHT THEN << >>
    ELSE LET direction == IF 2 * rs[row + 1] < RNG_MOD THEN "left" ELSE "right"
             x == IF direction = "left" /\ currentX > 0 THEN currentX - 1
                  ELSE IF direction = "right" /\ currentX < BOARD_WIDTH - 1
                       THEN currentX + 1
                  ELSE currentX
         IN << [x |-> x * PEG_SPACING, y |-> row * PEG_SPACING, direction |-> direction] >>
            \o DropPath(rs, row + 1, x)

\* const rng = seed ? this.createSeededRandom(seed) : Math.random, as the
\* values its calls return; mathRandom is the stream Math.random would give
RngOf(seed, mathRandom) ==
    IF Truthy(seed)
    THEN SeededStream(createSeededRandom(seed), BOARD_HEIGHT + 2)
    ELSE mathRandom

\* simulateDrop(seed)
simulateDrop(seed, mathRandom) ==
    LET rs == RngOf(seed, mathRandom)
        path == DropPath(rs, 0, BOARD_WIDTH \div 2)
        finalSlot == IF Len(path) = 0 THEN BOARD_WIDTH \div 2 ELSE path[Len(path)].x
    IN [path |-> path,
        finalSlot |-> finalSlot,
        amountCents |-> calculatePrize(finalSlot, rs[BOARD_HEIGHT + 1], rs[BOARD_HEIGHT + 2])]

\* (mutant) the slot is tested against the board height
validateDropResultSlotByHeight(result) ==
    /\ result.amountCents >= 1
    /\ result.amountCents <= 100
    /\ result.finalSlot >= 0
    /\ result.finalSlot < BOARD_HEIGHT
    /\ Len(result.path) = BOARD_HEIGHT

validateDropResult(result) ==
    /\ result.amountCents >= 1
    /\ result.amountCents <= 100
    /\ result.finalSlot >= 0
    /\ result.finalSlot < BOARD_WIDTH
    /\ Len(result.path) = BOARD_HEIGHT

\* Sample streams standing for Math.random: eight bounce samples (a run of
\* one direction followed by a run of the other), one tier sample and one
\* amount sample.
BounceSamples == {0, 116640}      \* 0 bounces left, 0.5 bounces right
BounceRuns ==
    { [i \in 1..BOARD_HEIGHT |-> IF i <= k THEN a ELSE b] :
        k \in 0..BOARD_HEIGHT, a \in BounceSamples, b \in BounceSamples }
TierSamples == {0, 93312, 100000, 170000, 215000, 233279}
AmountSamples == {0, 233279}
MathRandomStreams ==
    { bs \o << w, u >> : bs \in BounceRuns, w \in TierSamples, u \in AmountSamples }

SimInit ==
    /\ seedArg \in SeedArgs
    /\ drops = << >>
    /\ streams = << >>
    /\ checks = << >>

SimIdle ==
    /\ seedArg = Undefined
    /\ drops = << >>
    /\ streams = << >>
    /\ checks = << >>

\* one invocation plinkoSimulator.simulateDrop(seedArg); two invocations are
\* kept for comparison
SimulateDropCall ==
    /\ Len(drops) < 2
    /\ \E mr \in MathRandomStreams :
         /\ drops' = Append(drops, simulateDrop(seedArg, mr))
         /\ streams' = Append(streams, RngOf(seedArg, mr))
    /\ UNCHANGED <<seedArg, checks>>
    /\ UNCHANGED <<vaultVars, quotaVars, adminVars, restVars>>

SimNext == SimulateDropCall

-----------------------------------------------------------------------------
(***************************************************************************)
(*                 REDEMPTION VALIDATOR (ClaimVault.sol)                   *)
(* A transaction is one atomic action: the EVM runs transactions one       *)
(* after the other and a revert discards every write of the transaction.   *)
(***************************************************************************)
ZeroAddress == "0x0000000000000000000000000000000000000000"
Owner == "owner"
Alice == "alice"
Bob == "bob"
VaultAddress == "vault"            \* address(this)
OtherVault == "otherVault"         \* another ClaimVault deployment
Stranger == "stranger"             \* what ecrecover yields for a signature over another digest
Funder == "funder"                 \* an account that is not the owner and holds USDC
Holders == {Alice, Bob}
Tracked == {VaultAddress, Alice, Bob}   \* accounts whose USDC balance is followed

\* signing keys and their addresses
IssuerKey == "issuerKey"
RotatedKey == "rotatedKey"
AddrOf(key) == IF key = IssuerKey THEN "issuerSigner" ELSE "rotatedSigner"

\* amountCents * 1e4
TOKENS_PER_CENT == 10000

\* (mutant) the vault's address is left out of what is hashed and signed
VoucherHashNoVault(amountCents, recipient, nonce, expiry, vault) ==
    << amountCents, recipient, nonce, expiry >>

\* (mutant) the amount is left out of what is hashed and signed
VoucherHashNoAmount(amountCents, recipient, nonce, expiry, vault) ==
    << recipient, nonce, expiry, vault >>

\* keccak256(abi.encodePacked(amountCents, recipient, nonce, expiry, vault)):
\* every field has a fixed width, so the packing is injective; the hash is
\* kept as the tuple of what was hashed.
VoucherHash(amountCents, recipient, nonce, expiry, vault) ==
    << amountCents, recipient, nonce, expiry, vault >>

\* keccak256(abi.encodePacked(<Ethereum Signed Message prefix, length 32>, voucherHash))
EthSignedMessageHash(voucherHash) == << "Ethereum Signed Message 32", voucherHash >>

\* A 65-byte (r, s, v) signature made with `key` over `digest`.
EcdsaSign(key, digest) == [length |-> 65, key |-> key, digest |-> digest]
\* a signature of the wrong length, and 65 bytes that are no valid (r, s, v)
ShortSig == [length |-> 64, key |-> "none", digest |-> << >>]
InvalidSig == [length |-> 65, key |-> "none", digest |-> << >>]

\* (mutant) the signing key's address whatever digest is presented
ecrecoverAnyDigest(hash, signature) ==
    IF signature.key = "none" THEN ZeroAddress ELSE AddrOf(signature.key)

\* ecrecover(hash, v, r, s): the signing key's address for the digest that
\* was signed, an unrelated address for any other digest, address(0) for an
\* invalid (r, s, v).
ecrecover(hash, signature) ==
    IF signature.key = "none" THEN ZeroAddress
    ELSE IF signature.digest = hash THEN AddrOf(signature.key)
    ELSE Stranger

\* The vouchers the issuer has signed: fields, signing key and the vault
\* address that went into the signed hash.
IssuedVouchers ==
    { [amountCents |-> 50, recipient |-> Alice, nonce |-> "n1", expiry |-> 2,
       key |-> IssuerKey, vault |-> VaultAddress],
      [amountCents |-> 50, recipient |-> Bob, nonce |-> "n2", expiry |-> 1,
       key |-> IssuerKey, vault |-> VaultAddress],
      [amountCents |-> 50, recipient |-> Alice, nonce |-> "n3", expiry |-> 2,
       key |-> RotatedKey, vault |-> VaultAddress],
      [amountCents |-> 50, recipient |-> Bob, nonce |-> "n4", expiry |-> 2,
       key |-> IssuerKey, vault |-> OtherVault] }

SigOf(v) ==
    EcdsaSign(v.key, EthSignedMessageHash(
        VoucherHash(v.amountCents, v.recipient, v.nonce, v.expiry, v.vault)))

Signatures == { SigOf(v) : v \in IssuedVouchers } \cup {ShortSig, InvalidSig}

\* amounts a caller may present instead of the signed one
TamperedAmounts == {0, 51, 101}

\* The redeem calls tried: the fields and signature of an issued voucher sent
\* by either holder, and the same with the amount, the recipient or the
\* signature replaced (one of them, or all of them at once by a sender that
\* is not the recipient).
RedeemCalls ==
    LET call(v, a, r, s, sender) ==
            [amountCents |-> a, recipient |-> r, nonce |-> v.nonce, expiry |-> v.expiry,
             signature |-> s, sender |-> sender]
        other(h) == IF h = Alice THEN Bob ELSE Alice
    IN  UNION { { call(v, v.amountCents, v.recipient, SigOf(v), sender) :
                    sender \in Holders }
                \cup { call(v, a, v.recipient, SigOf(v), v.recipient) :
                    a \in TamperedAmounts }
                \cup { call(v, v.amountCents, other(v.recipient), SigOf(v), sender) :
                    sender \in Holders }
                \cup { call(v, v.amountCents, v.recipient, s, v.recipient) :
                    s \in {ShortSig, InvalidSig} }
                \cup { call(v, a, v.recipient, ShortSig, other(v.recipient)) :
                    a \in TamperedAmounts }
              : v \in IssuedVouchers }

ArgsHash(c) == VoucherHash(c.amountCents, c.recipient, c.nonce, c.expiry, VaultAddress)
CallHashes == { ArgsHash(c) : c \in RedeemCalls }

\* the storage a transaction reads and writes (the vault's and the token's)
VaultState ==
    [signer |-> signer, paused |-> paused, redeemed |-> redeemed,
     totalRedeemed |-> totalRedeemed, totalVouchers |-> totalVouchers,
     balance |-> usdcBalance]

\* usdc.transfer / transferFrom on the followed accounts
Transfer(balance, from, to, amount) ==
    [a \in Tracked |->
        balance[a] - (IF a = from THEN amount ELSE 0) + (IF a = to THEN amount ELSE 0)]

\* (mutant) a rejection that returns without reverting: the writes made so far stay
RevertKeepsWrites(pre, cur, reason) == [result |-> reason, st |-> cur]

\* revert: the state before the transaction stands, whatever was written
Revert(pre, cur, reason) == [result |-> reason, st |-> pre]

\* (mutant) the consumed flag is never consulted
IsRedeemedNever(set, voucherHash) == FALSE

\* redeemed[voucherHash]
IsRedeemed(set, voucherHash) == voucherHash \in set

\* (mutant) a single slot holding the last redeemed hash instead of a mapping
MarkRedeemedLastOnly(set, voucherHash) == {voucherHash}

\* redeemed[voucherHash] = true
MarkRedeemed(set, voucherHash) == set \cup {voucherHash}

\* (mutant) the voucher already counts as expired at its expiry instant
ExpiredAtExpiry(now, expiry) == now >= expiry

\* block.timestamp > expiry
Expired(now, expiry) == now > expiry

\* _recoverSigner: "revert" stands for the revert on a wrong length
recoverSigner(hash, signature) ==
    IF signature.length # 65 THEN "revert" ELSE ecrecover(hash, signature)

\* (mutant) totalVouchers is left as it was
AtTransferUncounted(st, voucherHash, amountTokens) ==
    [st EXCEPT !.redeemed = MarkRedeemed(@, voucherHash),
               !.totalRedeemed = @ + amountTokens]

\* (mutant) the flag is not yet written when usdc.transfer is invoked
AtTransferUnmarked(st, voucherHash, amountTokens) ==
    [st EXCEPT !.totalRedeemed = @ + amountTokens,
               !.totalVouchers = @ + 1]

\* the storage at the moment redeem invokes usdc.transfer: the flag and the
\* statistics are written
AtTransfer(st, voucherHash, amountTokens) ==
    [st EXCEPT !.redeemed = MarkRedeemed(@, voucherHash),
               !.totalRedeemed = @ + amountTokens,
               !.totalVouchers = @ + 1]

\* (mutant) the amount is checked before the recipient
redeemAmountBeforeRecipient(st, msgSender, amountCents, recipient, nonce, expiry, signature) ==
    LET voucherHash == VoucherHash(amountCents, recipient, nonce, expiry, VaultAddress)
        ethSignedMessageHash == EthSignedMessageHash(voucherHash)
        recovered == recoverSigner(ethSignedMessageHash, signature)
        marked == [st EXCEPT !.redeemed = MarkRedeemed(@, voucherHash)]
        amountTokens == amountCents * TOKENS_PER_CENT
        paid == [marked EXCEPT
                    !.totalRedeemed = @ + amountTokens,
                    !.totalVouchers = @ + 1,
                    !.balance = Transfer(@, VaultAddress, recipient, amountTokens)]
    IN  IF st.paused THEN Revert(st, st, "Pausable: paused")
        ELSE IF Expired(blockTime, expiry) THEN Revert(st, st, "VoucherExpired")
        ELSE IF amountCents = 0 \/ amountCents > 100 THEN Revert(st, st, "InvalidAmount")
        ELSE IF recipient # msgSender THEN Revert(st, st, "RecipientMismatch")
        ELSE IF IsRedeemed(st.redeemed, voucherHash) THEN Revert(st, st, "AlreadyRedeemed")
        ELSE IF recovered = "revert" THEN Revert(st, st, "InvalidSignature")
        ELSE IF recovered # st.signer THEN Revert(st, st, "InvalidSignature")
        ELSE IF marked.balance[VaultAddress] < amountTokens
             THEN Revert(st, marked, "InsufficientFunds")
        ELSE [result |-> "ok", st |-> paid]

\* redeem(amountCents, recipient, nonce, expiry, signature) sent by msgSender
redeem(st, msgSender, amountCents, recipient, nonce, expiry, signature) ==
    LET voucherHash == VoucherHash(amountCents, recipient, nonce, expiry, VaultAddress)
        ethSignedMessageHash == EthSignedMessageHash(voucherHash)
        recovered == recoverSigner(ethSignedMessageHash, signature)
        marked == [st EXCEPT !.redeemed = MarkRedeemed(@, voucherHash)]
        amountTokens == amountCents * TOKENS_PER_CENT
        paid == [AtTransfer(st, voucherHash, amountTokens) EXCEPT
                    !.balance = Transfer(@, VaultAddress, recipient, amountTokens)]
    IN  IF st.paused THEN Revert(st, st, "Pausable: paused")
        ELSE IF Expired(blockTime, expiry) THEN Revert(st, st, "VoucherExpired")
        ELSE IF recipient # msgSender THEN Revert(st, st, "RecipientMismatch")
        ELSE IF amountCents = 0 \/ amountCents > 100 THEN Revert(st, st, "InvalidAmount")
        ELSE IF IsRedeemed(st.redeemed, voucherHash) THEN Revert(st, st, "AlreadyRedeemed")
        ELSE IF recovered = "revert" THEN Revert(st, st, "InvalidSignature")
        ELSE IF recovered # st.signer THEN Revert(st, st, "InvalidSignature")
        ELSE IF marked.balance[VaultAddress] < amountTokens
             THEN Revert(st, marked, "InsufficientFunds")
        ELSE [result |-> "ok", st |-> paid]

\* nonReentrant: a call that arrives while redeem is running reverts before
\* its body; `body` is what the body would have answered in storage `at`
nonReentrant(entered, at, body) ==
    IF entered THEN Revert(at, at, "ReentrancyGuard: reentrant call") ELSE body

\* deposit(amount): transferFrom(msg.sender, this, amount), from a sender
\* that holds the amount and has approved the vault
deposit(st, msgSender, amount) ==
    IF amount = 0 THEN Revert(st, st, "InvalidAmount")
    ELSE [result |-> "ok",
          st |-> [st EXCEPT !.balance = Transfer(@, msgSender, VaultAddress, amount)]]

onlyOwner(msgSender) == msgSender = Owner

withdraw(st, msgSender, amount, recipient) ==
    IF ~onlyOwner(msgSender) THEN Revert(st, st, "Ownable: caller is not the owner")
    ELSE IF amount = 0 THEN Revert(st, st, "InvalidAmount")
    ELSE IF recipient = ZeroAddress THEN Revert(st, st, "ZeroAddress")
    ELSE IF st.balance[VaultAddress] < amount
         THEN Revert(st, st, "ERC20: transfer amount exceeds balance")
    ELSE [result |-> "ok",
          st |-> [st EXCEPT !.balance = Transfer(@, VaultAddress, recipient, amount)]]

emergencyWithdraw(st, msgSender, recipient) ==
    IF ~onlyOwner(msgSender) THEN Revert(st, st, "Ownable: caller is not the owner")
    ELSE IF recipient = ZeroAddress THEN Revert(st, st, "ZeroAddress")
    ELSE [result |-> "ok",
          st |-> IF st.balance[VaultAddress] > 0
                 THEN [st EXCEPT !.balance =
                          Transfer(@, VaultAddress, recipient, st.balance[VaultAddress])]
                 ELSE st]

\* (mutant) updateSigner takes the zero address too
updateSignerAllowsZero(st, msgSender, newSigner) ==
    IF ~onlyOwner(msgSender) THEN Revert(st, st, "Ownable: caller is not the owner")
    ELSE [result |-> "ok", st |-> [st EXCEPT !.signer = newSigner]]

\* (mutant) updateSigner answers but keeps the old signer
updateSignerKeepsOld(st, msgSender, newSigner) ==
    IF ~onlyOwner(msgSender) THEN Revert(st, st, "Ownable: caller is not the owner")
    ELSE IF newSigner = ZeroAddress THEN Revert(st, st, "ZeroAddress")
    ELSE [result |-> "ok", st |-> st]

updateSigner(st, msgSender, newSigner) ==
    IF ~onlyOwner(msgSender) THEN Revert(st, st, "Ownable: caller is not the owner")
    ELSE IF newSigner = ZeroAddress THEN Revert(st, st, "ZeroAddress")
    ELSE [result |-> "ok", st |-> [st EXCEPT !.signer = newSigner]]

pause(st, msgSender) ==
    IF ~onlyOwner(msgSender) THEN Revert(st, st, "Ownable: caller is not the owner")
    ELSE IF st.paused THEN Revert(st, st, "Pausable: paused")
    ELSE [result |-> "ok", st |-> [st EXCEPT !.paused = TRUE]]

\* (mutant) unpause answers but leaves the flag set
unpauseKeepsFlag(st, msgSender) ==
    IF ~onlyOwner(msgSender) THEN Revert(st, st, "Ownable: caller is not the owner")
    ELSE IF ~st.paused THEN Revert(st, st, "Pausable: not paused")
    ELSE [result |-> "ok", st |-> st]

unpause(st, msgSender) ==
    IF ~onlyOwner(msgSender) THEN Revert(st, st, "Ownable: caller is not the owner")
    ELSE IF ~st.paused THEN Revert(st, st, "Pausable: not paused")
    ELSE [result |-> "ok", st |-> [st EXCEPT !.paused = FALSE]]

\* ---- transactions
NoArgs ==
    [amountCents |-> 0, recipient |-> ZeroAddress, nonce |-> "", expiry |-> 0,
     signature |-> InvalidSig, sender |-> ZeroAddress]
Call(op, sender, args, result) ==
    [op |-> op, sender |-> sender, args |-> [args EXCEPT !.sender = sender],
     result |-> result]

\* no redeem was made from within a transfer
NoReentry == [called |-> FALSE, marked |-> FALSE, inner |-> "none", body |-> "none", paid |-> 0]

\* the state after a transaction that ended as `out`
Commit(out) ==
    /\ signer' = out.st.signer
    /\ paused' = out.st.paused
    /\ redeemed' = out.st.redeemed
    /\ totalRedeemed' = out.st.totalRedeemed
    /\ totalVouchers' = out.st.totalVouchers
    /\ usdcBalance' = out.st.balance

DepositAmount == 50 * TOKENS_PER_CENT
AdminSenders == {Owner, Alice}
AdminRecipients == {Owner, ZeroAddress}

VaultInit ==
    /\ signer = AddrOf(IssuerKey)
    /\ paused = FALSE
    /\ redeemed = {}
    /\ totalRedeemed = 0
    /\ totalVouchers = 0
    /\ usdcBalance = [a \in Tracked |-> 0]
    /\ blockTime = 0
    /\ vLast = Call("deploy", Owner, NoArgs, "ok")
    /\ okCount = [h \in CallHashes |-> 0]

VaultIdle == VaultInit

Redeem ==
    \E c \in RedeemCalls :
        LET out == redeem(VaultState, c.sender, c.amountCents, c.recipient, c.nonce,
                          c.expiry, c.signature)
        IN  /\ Commit(out)
            /\ vLast' = Call("redeem", c.sender, c, out.result)
            /\ okCount' = IF out.result = "ok"
                          THEN [okCount EXCEPT ![ArgsHash(c)] = Min(@ + 1, 2)]
                          ELSE okCount
            /\ UNCHANGED <<blockTime, simVars, quotaVars, adminVars, restVars>>

\* history: the commitments turned away for want of funds and still waiting,
\* and those paid after having waited
NoneStarved == [waiting |-> {}, paid |-> {}]
StarvedAfter(c, result) ==
    CASE result = "InsufficientFunds" ->
            [starved EXCEPT !.waiting = @ \cup {ArgsHash(c)}]
      [] result = "ok" /\ ArgsHash(c) \in starved.waiting ->
            [waiting |-> starved.waiting \ {ArgsHash(c)},
             paid |-> starved.paid \cup {ArgsHash(c)}]
      [] OTHER -> starved

\* redeem with a token whose transfer calls redeem again, with the same
\* fields and signature, before it returns (the token or a hook of the
\* recipient being the caller, in the name of either holder)
ReenteredRedeem ==
    \E c \in RedeemCalls, innerSender \in Holders :
        LET out == redeem(VaultState, c.sender, c.amountCents, c.recipient, c.nonce,
                          c.expiry, c.signature)
            at == AtTransfer(VaultState, ArgsHash(c), c.amountCents * TOKENS_PER_CENT)
            body == redeem(at, innerSender, c.amountCents, c.recipient, c.nonce,
                           c.expiry, c.signature)
            inner == nonReentrant(TRUE, at, body)
        IN  /\ Commit(out)
            /\ vLast' = Call("redeem", c.sender, c, out.result)
            /\ okCount' = IF out.result = "ok"
                          THEN [okCount EXCEPT ![ArgsHash(c)] = Min(@ + 1, 2)]
                          ELSE okCount
            /\ reentry' = IF out.result = "ok"
                          THEN [called |-> TRUE,
                                marked |-> IsRedeemed(at.redeemed, ArgsHash(c)),
                                inner |-> inner.result,
                                body |-> body.result,
                                paid |-> out.st.balance[c.recipient] - usdcBalance[c.recipient]]
                          ELSE NoReentry
            /\ starved' = StarvedAfter(c, out.result)
            /\ UNCHANGED <<blockTime, simVars, quotaVars, adminVars, both, ledgerVars,
                           wins, onChain, shown>>

Deposit ==
    \E msgSender \in {Owner, Funder}, amount \in {0, DepositAmount} :
        LET out == deposit(VaultState, msgSender, amount)
        IN  /\ out.st.balance[VaultAddress] <= MaxDeposits * DepositAmount
            /\ Commit(out)
            /\ vLast' = Call("deposit", msgSender, [NoArgs EXCEPT !.amountCents = amount],
                             out.result)
            /\ UNCHANGED <<blockTime, okCount, simVars, quotaVars, adminVars, restVars>>

Withdraw ==
    \E msgSender \in AdminSenders, amount \in {0, DepositAmount},
       recipient \in AdminRecipients :
        LET out == withdraw(VaultState, msgSender, amount, recipient)
        IN  /\ Commit(out)
            /\ vLast' = Call("withdraw", msgSender,
                             [NoArgs EXCEPT !.amountCents = amount, !.recipient = recipient],
                             out.result)
            /\ UNCHANGED <<blockTime, okCount, simVars, quotaVars, adminVars, restVars>>

EmergencyWithdraw ==
    \E msgSender \in AdminSenders, recipient \in AdminRecipients :
        LET out == emergencyWithdraw(VaultState, msgSender, recipient)
        IN  /\ Commit(out)
            /\ vLast' = Call("emergencyWithdraw", msgSender,
                             [NoArgs EXCEPT !.recipient = recipient], out.result)
            /\ UNCHANGED <<blockTime, okCount, simVars, quotaVars, adminVars, restVars>>

UpdateSigner ==
    \E msgSender \in AdminSenders,
       newSigner \in {AddrOf(IssuerKey), AddrOf(RotatedKey), ZeroAddress} :
        LET out == updateSigner(VaultState, msgSender, newSigner)
        IN  /\ Commit(out)
            /\ vLast' = Call("updateSigner", msgSender,
                             [NoArgs EXCEPT !.recipient = newSigner], out.result)
            /\ UNCHANGED <<blockTime, okCount, simVars, quotaVars, adminVars, restVars>>

Pause ==
    \E msgSender \in AdminSenders :
        LET out == pause(VaultState, msgSender)
        IN  /\ Commit(out)
            /\ vLast' = Call("pause", msgSender, NoArgs, out.result)
            /\ UNCHANGED <<blockTime, okCount, simVars, quotaVars, adminVars, restVars>>

Unpause ==
    \E msgSender \in AdminSenders :
        LET out == unpause(VaultState, msgSender)
        IN  /\ Commit(out)
            /\ vLast' = Call("unpause", msgSender, NoArgs, out.result)
            /\ UNCHANGED <<blockTime, okCount, simVars, quotaVars, adminVars, restVars>>

\* a later block
NextBlock ==
    /\ blockTime < MaxTime
    /\ blockTime' = blockTime + 1
    /\ vLast' = Call("block", Owner, NoArgs, "ok")
    /\ UNCHANGED <<signer, paused, redeemed, totalRedeemed, totalVouchers, usdcBalance,
                   okCount, simVars, quotaVars, adminVars, restVars>>

ReentryNext ==
    \/ ReenteredRedeem
    \/ Deposit
    \/ Pause
    \/ Unpause
    \/ NextBlock

VaultNext ==
    \/ Redeem
    \/ Deposit
    \/ Withdraw
    \/ EmergencyWithdraw
    \/ UpdateSigner
    \/ Pause
    \/ Unpause
    \/ NextBlock

-----------------------------------------------------------------------------
(***************************************************************************)
(*        QUOTA LEDGER (RedisTicketManager) AND THE DRAW REQUEST           *)
(* A request handler runs until its next await; what it awaits (a Redis    *)
(* command, a database insert) takes effect in one step.  The code that    *)
(* runs synchronously before an await belongs to the step before it.       *)
(***************************************************************************)
FULL_ALLOWANCE == 3
WINDOW_MS == 86400000              \* 24 * 60 * 60 * 1000; SETEX 86400 seconds
VOUCHER_TTL_S == 2592000           \* 30 * 24 * 60 * 60
ClockStep == WINDOW_MS \div 2       \* the clock advances twelve hours at a time

\* the wallet address of the one registered user, as stored (lowercase) and
\* as a client may spell it
LowerWallet == "0xab"
MixedWallet == "0xAB"
Wallets == {LowerWallet, MixedWallet}
ToLower(walletAddress) == IF walletAddress = MixedWallet THEN LowerWallet ELSE walletAddress

getTicketKey(walletAddress) == << "tickets:", ToLower(walletAddress) >>
Keys == { getTicketKey(w) : w \in Wallets }

NoRecord == [present |-> FALSE, tickets |-> 0, expiry |-> 0]
Rec(tickets, expiry) == [present |-> TRUE, tickets |-> tickets, expiry |-> expiry]

\* a Redis key set with SETEX is gone once the time is past its expiry
\* (the server deletes a key when now > expire time)
RedisLive(rec, now) == rec.present /\ ~(now > rec.expiry)
\* (mutant) the record already counts as expired at its expiry instant
MemoryLiveUntilExpiry(data, now) == data.present /\ now < data.expiry

\* memoryStore: !data || Date.now() > data.expiry
MemoryLive(data, now) == data.present /\ ~(now > data.expiry)

\* (mutant) the script decrements without looking at the counter
consumeScriptNoCheck(rec, now) ==
    IF ~RedisLive(rec, now)
    THEN [ret |-> 1, rec |-> Rec(FULL_ALLOWANCE - 1, now + WINDOW_MS)]
    ELSE [ret |-> 1, rec |-> [rec EXCEPT !.tickets = @ - 1]]

\* the Lua script of consumeTicket, run atomically by Redis
consumeScript(rec, now) ==
    IF ~RedisLive(rec, now)
    THEN [ret |-> 1, rec |-> Rec(FULL_ALLOWANCE - 1, now + WINDOW_MS)]
    ELSE IF rec.tickets > 0
    THEN [ret |-> 1, rec |-> [rec EXCEPT !.tickets = @ - 1]]
    ELSE [ret |-> 0, rec |-> rec]

\* (mutant) the test data.tickets >= 0 instead of data.tickets > 0
consumeTicketFromMemoryOffByOne(data, now) ==
    IF ~MemoryLive(data, now)
    THEN [ret |-> 1, rec |-> Rec(FULL_ALLOWANCE - 1, now + WINDOW_MS)]
    ELSE IF data.tickets >= 0
    THEN [ret |-> 1, rec |-> [data EXCEPT !.tickets = @ - 1]]
    ELSE [ret |-> 0, rec |-> data]

\* consumeTicketFromMemory (ret 1 for true, 0 for false)
consumeTicketFromMemory(data, now) ==
    IF ~MemoryLive(data, now)
    THEN [ret |-> 1, rec |-> Rec(FULL_ALLOWANCE - 1, now + WINDOW_MS)]
    ELSE IF data.tickets > 0
    THEN [ret |-> 1, rec |-> [data EXCEPT !.tickets = @ - 1]]
    ELSE [ret |-> 0, rec |-> data]

\* (mutant) reading the counter takes a ticket
getTicketsFromMemoryConsuming(data, now) ==
    IF ~MemoryLive(data, now)
    THEN [ret |-> FULL_ALLOWANCE - 1, rec |-> Rec(FULL_ALLOWANCE - 1, now + WINDOW_MS)]
    ELSE [ret |-> data.tickets, rec |-> data]

\* getTicketsFromMemory
getTicketsFromMemory(data, now) ==
    IF ~MemoryLive(data, now)
    THEN [ret |-> FULL_ALLOWANCE, rec |-> Rec(FULL_ALLOWANCE, now + WINDOW_MS)]
    ELSE [ret |-> data.tickets, rec |-> data]

\* resetTicketsInMemory, and redis.setex(key, 24 * 60 * 60, "3")
resetTicketsInMemory(now) == Rec(FULL_ALLOWANCE, now + WINDOW_MS)
setexFull(now) == Rec(FULL_ALLOWANCE, now + WINDOW_MS)

\* ---- Voucher Issuer (crypto.ts)
NonceIds == {"a1", "b2"}
\* crypto.randomBytes(32).toString("hex"): 64 hex digits, no "0x" in front
generateNonce(id) == [hex |-> id, prefixed |-> FALSE]
\* what ethers takes as a bytes32 value: a "0x"-prefixed hex string of 32 bytes
IsBytes32(value) == value.prefixed
Thrown == [length |-> 0, key |-> "thrown", digest |-> << >>]

\* signVoucher(voucherData, contractAddress): solidityPackedKeccak256 throws
\* on a bytes32 value that is no BytesLike
signVoucher(voucherData, contractAddress) ==
    IF ~IsBytes32(voucherData.nonce) THEN Thrown
    ELSE EcdsaSign(IssuerKey,
            EthSignedMessageHash(
                VoucherHash(voucherData.amountCents, voucherData.recipient,
                            voucherData.nonce.hex, voucherData.expiry, contractAddress)))

\* process.env.CLAIM_VAULT_ADDRESS, set to the deployed vault
claimVaultAddress == VaultAddress

\* the Math.random streams the draws of the server take
DropStreams ==
    { [i \in 1..BOARD_HEIGHT |-> 0] \o << 0, 0 >>,
      [i \in 1..BOARD_HEIGHT |-> 116640] \o << 233279, 233279 >> }

\* ---- callers and requests
\* kind: "consume", "remaining", "reset" are calls of the ticket manager's
\* methods; "drop" and "tickets" are the requests POST /api/drop and
\* GET /api/tickets.  pc names the await the caller is suspended at.
IdleReq == [kind |-> "idle", pc |-> "idle", key |-> << >>, voucher |-> << >>]
Requests == {1, 2}                 \* two callers may be in flight
MethodCalls == {"consume", "remaining", "reset"}

TicketCall(op, store, pre, preLive, out) ==
    [op |-> op, store |-> store, pre |-> pre, preLive |-> preLive,
     ret |-> out.ret, post |-> out.rec]
NoTicketCall == TicketCall("none", "none", NoRecord, FALSE, [ret |-> 0, rec |-> NoRecord])

DrawEnd(status, error, failedAt, remaining) ==
    [status |-> status, error |-> error, failedAt |-> failedAt, remaining |-> remaining]
NoDraw == DrawEnd(0, "", "none", 0)

NoRun == [store |-> "none", A |-> 0, n |-> 0, ok |-> 0, overlap |-> FALSE]

QuotaInit ==
    /\ redisUp = TRUE
    /\ redisAvailable = FALSE
    /\ pinged = FALSE
    /\ redisStore = [k \in Keys |-> NoRecord]
    /\ memoryStore = [k \in Keys |-> NoRecord]
    /\ clock = 0
    /\ req = [r \in Requests |-> IdleReq]
    /\ dropHistory = << >>
    /\ vouchers = << >>
    /\ qLast = NoTicketCall
    /\ run = NoRun
    /\ drawLast = NoDraw
    /\ drawsOk = 0
    /\ calm = TRUE

QuotaIdle == QuotaInit

\* ---- one call of the ticket manager on one store, as a value
ViaMemory(op, k, out) ==
    [rstore |-> redisStore,
     mstore |-> [memoryStore EXCEPT ![k] = out.rec],
     call |-> TicketCall(op, "memory", memoryStore[k],
                         MemoryLive(memoryStore[k], clock), out)]

ViaRedis(op, k, pre, out) ==
    [rstore |-> [redisStore EXCEPT ![k] = out.rec],
     mstore |-> memoryStore,
     call |-> TicketCall(op, "redis", pre, RedisLive(pre, clock), out)]

\* consumeTicket once the flag has been read: the script on Redis, or, when
\* the command fails, the catch block's consumeTicketFromMemory
ConsumeOn(k, viaRedis) ==
    IF viaRedis
    THEN ViaRedis("consume", k, redisStore[k], consumeScript(redisStore[k], clock))
    ELSE ViaMemory("consume", k, consumeTicketFromMemory(memoryStore[k], clock))

\* resetTickets once the flag has been read
ResetOn(k, viaRedis) ==
    IF viaRedis
    THEN ViaRedis("reset", k, redisStore[k], [ret |-> FULL_ALLOWANCE, rec |-> setexFull(clock)])
    ELSE ViaMemory("reset", k, [ret |-> FULL_ALLOWANCE, rec |-> resetTicketsInMemory(clock)])

\* the memory branch of getRemainingTickets
RemainingFromMemory(k) ==
    ViaMemory("getRemaining", k, getTicketsFromMemory(memoryStore[k], clock))

\* getRemainingTickets when redis.get(key) settles with a value
RemainingFromRedis(k) ==
    ViaRedis("getRemaining", k, redisStore[k],
             [ret |-> redisStore[k].tickets, rec |-> redisStore[k]])

\* getRemainingTickets when redis.setex(key, 24 * 60 * 60, "3") settles,
\* redis.get(key) having found nothing
RemainingInitRedis(k) ==
    ViaRedis("getRemaining", k, NoRecord, [ret |-> FULL_ALLOWANCE, rec |-> setexFull(clock)])

\* history: the consumeTicket calls made in a row on one record; a call of
\* another method that writes the record ends the run
RunAfter(call, overlap) ==
    LET fresh == run.store # call.store \/ ~call.preLive
        base == IF fresh
                THEN [store |-> call.store,
                      A |-> IF call.preLive THEN call.pre.tickets ELSE FULL_ALLOWANCE,
                      n |-> 0, ok |-> 0, overlap |-> FALSE]
                ELSE run
    IN [base EXCEPT !.n = Min(@ + 1, MaxRun), !.ok = Min(@ + call.ret, MaxRun),
                    !.overlap = @ \/ overlap]

RunNext(call, overlap) ==
    IF call.op = "consume" THEN RunAfter(call, overlap)
    ELSE IF call.op = "reset" \/ ~call.preLive THEN NoRun
    ELSE run

\* the stores after the call; the histories qLast and run follow the calls of
\* the ticket manager's methods
Apply(r, kind, t) ==
    /\ redisStore' = t.rstore
    /\ memoryStore' = t.mstore
    /\ qLast' = IF kind \in MethodCalls THEN t.call ELSE qLast
    /\ run' = IF kind \in MethodCalls
              THEN RunNext(t.call, \E q \in Requests \ {r} : req[q].pc = "eval")
              ELSE run

LowestIdle(r) == req[r].kind = "idle" /\ \A q \in Requests : q < r => req[q].kind # "idle"
Suspend(r, kind, key, pc) ==
    req' = [req EXCEPT ![r] = [kind |-> kind, pc |-> pc, key |-> key,
                               voucher |-> req[r].voucher]]
Return(r) == req' = [req EXCEPT ![r] = IdleReq]

\* ---- the environment
PingSettles ==
    /\ ~pinged
    /\ pinged' = TRUE
    /\ redisAvailable' = redisUp
    /\ calm' = (calm /\ drawLast = NoDraw /\ \A r \in Requests : req[r].kind = "idle")
    /\ UNCHANGED <<redisUp, redisStore, memoryStore, clock, req, dropHistory,
                   vouchers, qLast, run, drawLast, drawsOk>>
    /\ UNCHANGED <<simVars, vaultVars, adminVars, restVars>>

RedisFails ==
    /\ redisUp
    /\ redisUp' = FALSE
    /\ calm' = FALSE
    /\ UNCHANGED <<redisAvailable, pinged, redisStore, memoryStore, clock, req,
                   dropHistory, vouchers, qLast, run, drawLast, drawsOk>>
    /\ UNCHANGED <<simVars, vaultVars, adminVars, restVars>>

RedisRecovers ==
    /\ ~redisUp
    /\ redisUp' = TRUE
    /\ UNCHANGED <<redisAvailable, pinged, redisStore, memoryStore, clock, req,
                   dropHistory, vouchers, qLast, run, drawLast, drawsOk, calm>>
    /\ UNCHANGED <<simVars, vaultVars, adminVars, restVars>>

\* redis.on('error', ...)
ErrorEvent ==
    /\ ~redisUp
    /\ redisAvailable
    /\ redisAvailable' = FALSE
    /\ UNCHANGED <<redisUp, pinged, redisStore, memoryStore, clock, req,
                   dropHistory, vouchers, qLast, run, drawLast, drawsOk, calm>>
    /\ UNCHANGED <<simVars, vaultVars, adminVars, restVars>>

\* time passes; Redis drops the keys whose TTL has run out
Tick ==
    /\ clock < MaxTicks * ClockStep
    /\ clock' = clock + ClockStep
    /\ redisStore' = [k \in Keys |-> IF RedisLive(redisStore[k], clock')
                                     THEN redisStore[k] ELSE NoRecord]
    /\ qLast' = NoTicketCall
    /\ UNCHANGED <<redisUp, redisAvailable, pinged, memoryStore, req,
                   dropHistory, vouchers, run, drawLast, drawsOk, calm>>
    /\ UNCHANGED <<simVars, vaultVars, adminVars, restVars>>

\* ---- the steps of the three methods, for a caller of any kind
\* consumeTicket up to its first await
ConsumeStart(r, kind, walletAddress) ==
    IF redisAvailable
    THEN /\ Suspend(r, kind, getTicketKey(walletAddress), "eval")
         /\ UNCHANGED <<redisStore, memoryStore, qLast, run>>
    ELSE /\ Apply(r, kind, ConsumeOn(getTicketKey(walletAddress), FALSE))
         /\ UNCHANGED req

\* getRemainingTickets up to its first await
RemainingStart(r, kind, walletAddress) ==
    IF redisAvailable
    THEN /\ Suspend(r, kind, getTicketKey(walletAddress), "get")
         /\ UNCHANGED <<redisStore, memoryStore, qLast, run>>
    ELSE /\ Apply(r, kind, RemainingFromMemory(getTicketKey(walletAddress)))
         /\ Return(r)

\* await this.redis.get(key) settles
RemainingGetStep(r) ==
    LET k == req[r].key
    IN IF redisUp /\ ~RedisLive(redisStore[k], clock)
       THEN /\ Suspend(r, req[r].kind, k, "setex")
            /\ UNCHANGED <<redisStore, memoryStore, qLast, run>>
       ELSE /\ Apply(r, req[r].kind,
                     IF redisUp THEN RemainingFromRedis(k) ELSE RemainingFromMemory(k))
            /\ Return(r)

\* await this.redis.setex(...) of getRemainingTickets settles
RemainingSetexStep(r) ==
    LET k == req[r].key
    IN /\ Apply(r, req[r].kind,
                IF redisUp THEN RemainingInitRedis(k) ELSE RemainingFromMemory(k))
       /\ Return(r)

\* (mutant) the catch block answers the call but leaves the flag set
AfterCommandKeepsFlag == redisAvailable' = redisAvailable

\* a failed command runs the catch block: this.redisAvailable = false
AfterCommand == redisAvailable' = (redisAvailable /\ redisUp)

\* ---- calls of the ticket manager's methods (SpecQuota)
KeepTables == UNCHANGED <<dropHistory, vouchers, drawLast, drawsOk, calm>>

\* ticketManager.consumeTicket(walletAddress) is called
ConsumeCall(r) ==
    /\ LowestIdle(r)
    /\ \E walletAddress \in Wallets : ConsumeStart(r, "consume", walletAddress)
    /\ KeepTables
    /\ UNCHANGED <<redisUp, redisAvailable, pinged, clock>>
    /\ UNCHANGED <<simVars, vaultVars, adminVars, restVars>>

\* await this.redis.eval(...) settles
ConsumeEval(r) ==
    /\ req[r].kind = "consume"
    /\ req[r].pc = "eval"
    /\ Apply(r, "consume", ConsumeOn(req[r].key, redisUp))
    /\ Return(r)
    /\ AfterCommand
    /\ KeepTables
    /\ UNCHANGED <<redisUp, pinged, clock>>
    /\ UNCHANGED <<simVars, vaultVars, adminVars, restVars>>

\* ticketManager.getRemainingTickets(walletAddress) is called
RemainingCall(r) ==
    /\ LowestIdle(r)
    /\ \E walletAddress \in Wallets : RemainingStart(r, "remaining", walletAddress)
    /\ KeepTables
    /\ UNCHANGED <<redisUp, redisAvailable, pinged, clock>>
    /\ UNCHANGED <<simVars, vaultVars, adminVars, restVars>>

RemainingGet(r) ==
    /\ req[r].kind = "remaining"
    /\ req[r].pc = "get"
    /\ RemainingGetStep(r)
    /\ AfterCommand
    /\ KeepTables
    /\ UNCHANGED <<redisUp, pinged, clock>>
    /\ UNCHANGED <<simVars, vaultVars, adminVars, restVars>>

RemainingSetex(r) ==
    /\ req[r].kind = "remaining"
    /\ req[r].pc = "setex"
    /\ RemainingSetexStep(r)
    /\ AfterCommand
    /\ KeepTables
    /\ UNCHANGED <<redisUp, pinged, clock>>
    /\ UNCHANGED <<simVars, vaultVars, adminVars, restVars>>

\* ticketManager.resetTickets(walletAddress) is called
ResetCall(r) ==
    /\ LowestIdle(r)
    /\ \E walletAddress \in Wallets :
        IF redisAvailable
        THEN /\ Suspend(r, "reset", getTicketKey(walletAddress), "resetex")
             /\ UNCHANGED <<redisStore, memoryStore, qLast, run>>
        ELSE /\ Apply(r, "reset", ResetOn(getTicketKey(walletAddress), FALSE))
             /\ UNCHANGED req
    /\ KeepTables
    /\ UNCHANGED <<redisUp, redisAvailable, pinged, clock>>
    /\ UNCHANGED <<simVars, vaultVars, adminVars, restVars>>

\* await this.redis.setex(...) of resetTickets settles
ResetSetex(r) ==
    /\ req[r].kind = "reset"
    /\ req[r].pc = "resetex"
    /\ Apply(r, "reset", ResetOn(req[r].key, redisUp))
    /\ Return(r)
    /\ AfterCommand
    /\ KeepTables
    /\ UNCHANGED <<redisUp, pinged, clock>>
    /\ UNCHANGED <<simVars, vaultVars, adminVars, restVars>>

QuotaNext ==
    \/ PingSettles
    \/ RedisFails
    \/ RedisRecovers
    \/ ErrorEvent
    \/ Tick
    \/ \E r \in Requests : ConsumeCall(r)
    \/ \E r \in Requests : ConsumeEval(r)
    \/ \E r \in Requests : RemainingCall(r)
    \/ \E r \in Requests : RemainingGet(r)
    \/ \E r \in Requests : RemainingSetex(r)
    \/ \E r \in Requests : ResetCall(r)
    \/ \E r \in Requests : ResetSetex(r)

\* ---- POST /api/drop and GET /api/tickets (SpecDraw)
\* req.user, set by the authenticate middleware from the users table
User == [id |-> 1, walletAddress |-> LowerWallet]

Logged(entry) ==
    /\ drawLast' = entry
    /\ drawsOk' = IF entry.status = 200 THEN drawsOk + 1 ELSE drawsOk
KeepLog == UNCHANGED <<drawLast, drawsOk>>
\* the handler's catch block: one answer for whatever was thrown in the try
\* block, at whichever step `at`
CatchResponse(at) == DrawEnd(500, "Failed to process drop", at, 0)
\* (mutant) the catch block hands the ticket back
FailedRefunds(r, at) ==
    /\ Return(r)
    /\ Logged(CatchResponse(at))
    /\ redisStore' = [redisStore EXCEPT ![req[r].key] =
                         IF @.present THEN [@ EXCEPT !.tickets = @ + 1] ELSE @]
    /\ memoryStore' = [memoryStore EXCEPT ![req[r].key] =
                         IF @.present THEN [@ EXCEPT !.tickets = @ + 1] ELSE @]

\* the catch block answers and touches no ticket record
Failed(r, at) ==
    /\ Return(r)
    /\ Logged(CatchResponse(at))
    /\ UNCHANGED <<redisStore, memoryStore>>

\* the draws that have got or may yet get a ticket
DrawsBegun == Len(dropHistory) + Cardinality({r \in Requests : req[r].kind = "drop"})

\* what follows consumeTicket in the handler, up to the next await
AfterConsume(r, k, t) ==
    IF t.call.ret = 0
    THEN /\ Return(r)
         /\ Logged(DrawEnd(400, "No tickets remaining", "ticket", 0))
    ELSE /\ Suspend(r, "drop", k, "history")
         /\ KeepLog

StartDrop(r) ==
    /\ LowestIdle(r)
    /\ DrawsBegun < MaxDraws
    /\ LET k == getTicketKey(User.walletAddress)
       IN IF redisAvailable
          THEN /\ Suspend(r, "drop", k, "eval")
               /\ UNCHANGED <<redisStore, memoryStore, qLast, run, drawLast, drawsOk>>
          ELSE LET t == ConsumeOn(k, FALSE)
               IN /\ Apply(r, "drop", t)
                  /\ AfterConsume(r, k, t)
    /\ UNCHANGED <<redisUp, redisAvailable, pinged, clock, dropHistory, vouchers, calm>>
    /\ UNCHANGED <<simVars, vaultVars, adminVars, restVars>>

\* await this.redis.eval(...) settles
DropEval(r) ==
    /\ req[r].kind = "drop"
    /\ req[r].pc = "eval"
    /\ LET t == ConsumeOn(req[r].key, redisUp)
       IN /\ Apply(r, "drop", t)
          /\ AfterConsume(r, req[r].key, t)
    /\ AfterCommand
    /\ UNCHANGED <<redisUp, pinged, clock, dropHistory, vouchers, calm>>
    /\ UNCHANGED <<simVars, vaultVars, adminVars, restVars>>

\* the handler's call of getRemainingTickets and, when that returns at once,
\* its response
RemainingOfDrop(r) ==
    /\ RemainingStart(r, "drop", User.walletAddress)
    /\ IF redisAvailable THEN KeepLog
       ELSE Logged(DrawEnd(200, "", "none",
                           RemainingFromMemory(getTicketKey(User.walletAddress)).call.ret))

\* the rows the handler writes
HistoryRow(amountCents, path, voucherId) ==
    [userId |-> User.id, amountCents |-> amountCents, pathData |-> path,
     voucherId |-> voucherId]
\* a nullable column: null, or a value
NullDate == [isNull |-> TRUE, value |-> 0]
NullText == [isNull |-> TRUE, value |-> ""]
Some(value) == [isNull |-> FALSE, value |-> value]

\* (mutant) the nonce column carries no unique constraint
HasNonceNever(nonce) == FALSE

\* vouchers.nonce is unique: an insert of a stored nonce is refused
HasNonce(nonce) == \E i \in DOMAIN vouchers : vouchers[i].nonce = nonce

\* storage.createVoucher(voucher): the insert and the row it returns, or the
\* table as it was when the insert throws
createVoucher(voucher, now) ==
    IF HasNonce(voucher.nonce)
    THEN [ok |-> FALSE, rows |-> vouchers]
    ELSE [ok |-> TRUE,
          rows |-> Append(vouchers,
                      [id |-> Len(vouchers) + 1,
                       recipient |-> voucher.recipient,
                       amountCents |-> voucher.amountCents,
                       nonce |-> voucher.nonce,
                       expiry |-> voucher.expiry,
                       signature |-> voucher.signature,
                       issuedAt |-> now,
                       redeemedAt |-> voucher.redeemedAt,
                       txHash |-> voucher.txHash])]

\* the handler between simulateDrop() and the first insert: the answer it
\* returns at once when validateDropResult rejects the result, otherwise
\* the drop-history row it goes on to insert
DropGate(dropResult) ==
    IF ~validateDropResult(dropResult)
    THEN [abort |-> TRUE, status |-> 500, error |-> "Invalid drop result",
          history |-> << >>]
    ELSE [abort |-> FALSE, status |-> 0, error |-> "",
          history |-> << HistoryRow(dropResult.amountCents, dropResult.path, 0) >>]

\* the handler from simulateDrop() to its call of getRemainingTickets; each
\* await (createDropHistory, createVoucher, createDropHistory) settles in one
\* step, with the database insert succeeding or throwing
DropContinue(r) ==
    /\ req[r].kind = "drop"
    /\ req[r].pc \in {"history", "voucher", "history2"}
    /\ \E dbOk \in BOOLEAN, mathRandom \in DropStreams, id \in NonceIds :
        LET dropResult == simulateDrop(Undefined, mathRandom)
            voucherData == [recipient |-> User.walletAddress,
                            amountCents |-> dropResult.amountCents,
                            nonce |-> generateNonce(id),
                            expiry |-> (clock \div 1000) + VOUCHER_TTL_S]
            signature == signVoucher(voucherData, claimVaultAddress)
        IN /\ calm' = (calm /\ dbOk)
           /\ CASE req[r].pc = "history" ->
                     IF DropGate(dropResult).abort
                     THEN /\ Return(r)
                          /\ Logged(DrawEnd(DropGate(dropResult).status,
                                            DropGate(dropResult).error, "validate", 0))
                          /\ UNCHANGED <<dropHistory, vouchers, redisStore, memoryStore, qLast, run>>
                     ELSE IF ~dbOk
                     THEN /\ Failed(r, "history")
                          /\ UNCHANGED <<dropHistory, vouchers, qLast, run>>
                     ELSE /\ dropHistory' = dropHistory \o DropGate(dropResult).history
                          /\ vouchers' = vouchers
                          /\ IF dropResult.amountCents > 0
                             THEN /\ UNCHANGED <<qLast, run>>
                                  /\ IF signature = Thrown
                                     THEN Failed(r, "sign")
                                     ELSE /\ UNCHANGED <<redisStore, memoryStore>>
                                          /\ req' = [req EXCEPT ![r] =
                                                [@ EXCEPT !.pc = "voucher",
                                                          !.voucher = << [data |-> voucherData,
                                                                          signature |-> signature,
                                                                          path |-> dropResult.path] >>]]
                                          /\ KeepLog
                             ELSE RemainingOfDrop(r)
                [] req[r].pc = "voucher" ->
                     LET v == req[r].voucher[1]
                         insert == [recipient |-> v.data.recipient,
                                    amountCents |-> v.data.amountCents,
                                    nonce |-> v.data.nonce,
                                    expiry |-> v.data.expiry,
                                    signature |-> v.signature,
                                    redeemedAt |-> NullDate,
                                    txHash |-> NullText]
                     IN IF ~dbOk \/ ~createVoucher(insert, clock).ok
                        THEN /\ Failed(r, "voucher")
                             /\ UNCHANGED <<dropHistory, vouchers, qLast, run>>
                        ELSE /\ vouchers' = createVoucher(insert, clock).rows
                             /\ req' = [req EXCEPT ![r] = [@ EXCEPT !.pc = "history2"]]
                             /\ UNCHANGED <<dropHistory, redisStore, memoryStore, qLast, run, drawLast, drawsOk>>
                [] req[r].pc = "history2" ->
                     LET v == req[r].voucher[1]
                     IN IF ~dbOk
                        THEN /\ Failed(r, "history2")
                             /\ UNCHANGED <<dropHistory, vouchers, qLast, run>>
                        ELSE /\ dropHistory' = Append(dropHistory,
                                    HistoryRow(v.data.amountCents, v.path, Len(vouchers)))
                             /\ vouchers' = vouchers
                             /\ RemainingOfDrop(r)
    /\ UNCHANGED <<redisUp, redisAvailable, pinged, clock>>
    /\ UNCHANGED <<simVars, vaultVars, adminVars, restVars>>

\* GET /api/tickets
StartTickets(r) ==
    /\ LowestIdle(r)
    /\ RemainingStart(r, "tickets", User.walletAddress)
    /\ calm' = FALSE
    /\ UNCHANGED <<redisUp, redisAvailable, pinged, clock, dropHistory, vouchers, drawLast, drawsOk>>
    /\ UNCHANGED <<simVars, vaultVars, adminVars, restVars>>

\* the handler's await of getRemainingTickets: redis.get(key) settles
TicketsGet(r) ==
    /\ req[r].kind \in {"tickets", "drop"}
    /\ req[r].pc = "get"
    /\ RemainingGetStep(r)
    /\ IF req[r].kind = "drop" /\ req'[r].kind = "idle"
       THEN Logged(DrawEnd(200, "", "none",
                           IF redisUp THEN RemainingFromRedis(req[r].key).call.ret
                           ELSE RemainingFromMemory(req[r].key).call.ret))
       ELSE KeepLog
    /\ AfterCommand
    /\ UNCHANGED <<redisUp, pinged, clock, dropHistory, vouchers, calm>>
    /\ UNCHANGED <<simVars, vaultVars, adminVars, restVars>>

\* the handler's await of getRemainingTickets: redis.setex(...) settles
TicketsSetex(r) ==
    /\ req[r].kind \in {"tickets", "drop"}
    /\ req[r].pc = "setex"
    /\ RemainingSetexStep(r)
    /\ IF req[r].kind = "drop"
       THEN Logged(DrawEnd(200, "", "none",
                           IF redisUp THEN RemainingInitRedis(req[r].key).call.ret
                           ELSE RemainingFromMemory(req[r].key).call.ret))
       ELSE KeepLog
    /\ AfterCommand
    /\ UNCHANGED <<redisUp, pinged, clock, dropHistory, vouchers, calm>>
    /\ UNCHANGED <<simVars, vaultVars, adminVars, restVars>>

\* The requests are followed at one instant of the clock; windows that lapse
\* are followed at the ticket manager's methods (QuotaNext).
DrawNext ==
    \/ PingSettles
    \/ RedisFails
    \/ RedisRecovers
    \/ ErrorEvent
    \/ \E r \in Requests : StartDrop(r)
    \/ \E r \in Requests : DropEval(r)
    \/ \E r \in Requests : DropContinue(r)
    \/ \E r \in Requests : StartTickets(r)
    \/ \E r \in Requests : TicketsGet(r)
    \/ \E r \in Requests : TicketsSetex(r)

\* ---- Voucher Ledger: the storage layer (SpecLedger)
\* the addresses the storage layer is called with: the two spellings of one
\* address and another address
OtherWallet == "0xcd"
LedgerWallets == Wallets \cup {OtherWallet}
TxHashes == {"0xt1", "0xt2"}

\* the vouchers the storage layer is asked to insert
InsertVouchers ==
    { [recipient |-> w, amountCents |-> 50, nonce |-> generateNonce(id),
       expiry |-> VOUCHER_TTL_S, signature |-> "0xsig",
       redeemedAt |-> NullDate, txHash |-> NullText] :
        w \in LedgerWallets, id \in NonceIds }

\* storage.createUser(user): wallet_address is stored in lower case and is
\* unique
createUser(user) ==
    LET walletAddress == ToLower(user.walletAddress)
    IN  IF \E i \in DOMAIN users : users[i].walletAddress = walletAddress
        THEN [ok |-> FALSE, rows |-> users]
        ELSE [ok |-> TRUE,
              rows |-> Append(users, [id |-> Len(users) + 1,
                                      walletAddress |-> walletAddress])]

\* storage.getUserByWallet(walletAddress): the matching rows (one at most)
getUserByWallet(walletAddress) ==
    { users[i] : i \in { j \in DOMAIN users :
                            users[j].walletAddress = ToLower(walletAddress) } }

\* (mutant) the argument is compared as it was written
getVouchersByUserAsWritten(walletAddress) ==
    { vouchers[i] : i \in { j \in DOMAIN vouchers :
                               vouchers[j].recipient = walletAddress } }

\* storage.getVouchersByUser(walletAddress): the rows of the recipient
getVouchersByUser(walletAddress) ==
    { vouchers[i] : i \in { j \in DOMAIN vouchers :
                               vouchers[j].recipient = ToLower(walletAddress) } }

\* storage.markVoucherRedeemed(nonce, txHash): UPDATE ... SET redeemed_at =
\* now, tx_hash = txHash WHERE nonce = nonce
markVoucherRedeemed(nonce, txHash, now) ==
    [i \in DOMAIN vouchers |->
        IF vouchers[i].nonce = nonce
        THEN [vouchers[i] EXCEPT !.redeemedAt = Some(now), !.txHash = Some(txHash)]
        ELSE vouchers[i]]

LedgerCall(op, arg, ok) == [op |-> op, arg |-> arg, ok |-> ok]
NoLedgerCall == LedgerCall("none", << >>, TRUE)

KeepQuotaButVouchers ==
    UNCHANGED <<redisUp, redisAvailable, pinged, redisStore, memoryStore, clock, req,
                dropHistory, qLast, run, drawLast, drawsOk, calm>>

CreateUser ==
    /\ \E walletAddress \in LedgerWallets :
         LET out == createUser([walletAddress |-> walletAddress])
         IN  /\ users' = out.rows
             /\ lLast' = LedgerCall("createUser", walletAddress, out.ok)
    /\ KeepQuotaButVouchers
    /\ UNCHANGED <<vouchers, both, wins, moreVars, simVars, vaultVars, adminVars>>

CreateVoucher ==
    /\ \E voucher \in InsertVouchers :
         LET out == createVoucher(voucher, clock)
         IN  /\ vouchers' = out.rows
             /\ lLast' = LedgerCall("createVoucher", voucher, out.ok)
    /\ KeepQuotaButVouchers
    /\ UNCHANGED <<users, both, wins, moreVars, simVars, vaultVars, adminVars>>

\* getUserByWallet and getVouchersByUser
LedgerRead ==
    /\ \E op \in {"getUserByWallet", "getVouchersByUser"}, walletAddress \in LedgerWallets :
         lLast' = LedgerCall(op, walletAddress, TRUE)
    /\ KeepQuotaButVouchers
    /\ UNCHANGED <<users, vouchers, both, wins, moreVars, simVars, vaultVars, adminVars>>

MarkVoucherRedeemed ==
    /\ \E id \in NonceIds, txHash \in TxHashes :
         /\ vouchers' = markVoucherRedeemed(generateNonce(id), txHash, clock)
         /\ lLast' = LedgerCall("markVoucherRedeemed", << generateNonce(id), txHash >>, TRUE)
    /\ KeepQuotaButVouchers
    /\ UNCHANGED <<users, both, wins, moreVars, simVars, vaultVars, adminVars>>

\* time passes
LedgerTick ==
    /\ clock < MaxLedgerTicks * ClockStep
    /\ clock' = clock + ClockStep
    /\ lLast' = NoLedgerCall
    /\ UNCHANGED <<redisUp, redisAvailable, pinged, redisStore, memoryStore, req,
                   dropHistory, vouchers, qLast, run, drawLast, drawsOk, calm>>
    /\ UNCHANGED <<users, both, wins, moreVars, simVars, vaultVars, adminVars>>

LedgerNext ==
    \/ CreateUser
    \/ CreateVoucher
    \/ LedgerRead
    \/ MarkVoucherRedeemed
    \/ LedgerTick

\* ---- a redemption and what the ledger learns of it (SpecSettle)
\* The client of the registered user lists its vouchers, redeems them at the
\* validator and keeps polling the list; the ledger is written by
\* createVoucher.  No route and no client code calls markVoucherRedeemed.
KeepLedgerSide ==
    UNCHANGED <<users, lLast, both, wins, reentry, starved, simVars, vaultVars, adminVars>>

\* fetchVouchers: GET /api/vouchers answers with the rows of the user, and
\* setVouchers replaces the list
FetchVouchers ==
    /\ shown' = getVouchersByUser(User.walletAddress)
    /\ KeepQuotaButVouchers
    /\ KeepLedgerSide
    /\ UNCHANGED <<vouchers, onChain>>

\* handleRedeem(voucher): redeemVoucher sends redeem to the validator, which
\* accepts a nonce once; on success the list in the client's state is
\* updated, otherwise the error is logged
HandleRedeem ==
    /\ \E voucher \in shown, txHash \in TxHashes :
         IF voucher.nonce \notin onChain
         THEN /\ onChain' = onChain \cup {voucher.nonce}
              /\ shown' = { IF v.id = voucher.id
                            THEN [v EXCEPT !.redeemedAt = Some(clock),
                                           !.txHash = Some(txHash)]
                            ELSE v : v \in shown }
         ELSE UNCHANGED <<onChain, shown>>
    /\ KeepQuotaButVouchers
    /\ KeepLedgerSide
    /\ UNCHANGED vouchers

SettleNext ==
    \/ CreateVoucher
    \/ FetchVouchers
    \/ HandleRedeem
    \/ LedgerTick

\* ---- the shared store and the process-local store, each alone (SpecEquiv)
\* One caller at a time calls the same method for the same principal on a
\* manager that uses Redis throughout and on one that uses its memory store
\* throughout, both starting empty and reading one clock.
NoAnswers == [op |-> "none", shared |-> 0, local |-> 0]

NoWins == [store \in {"redis", "memory"} |-> 0]

RestIdle ==
    /\ both = NoAnswers
    /\ users = << >>
    /\ lLast = NoLedgerCall
    /\ wins = NoWins
    /\ reentry = NoReentry
    /\ starved = NoneStarved
    /\ onChain = {}
    /\ shown = {}

\* the method on the shared store, its awaits settled one after the other
SharedCall(op, k) ==
    CASE op = "consume" -> ConsumeOn(k, TRUE)
      [] op = "reset" -> ResetOn(k, TRUE)
      [] op = "remaining" -> IF RedisLive(redisStore[k], clock)
                             THEN RemainingFromRedis(k)
                             ELSE RemainingInitRedis(k)

\* the method on the process-local store
LocalCall(op, k) ==
    CASE op = "consume" -> ConsumeOn(k, FALSE)
      [] op = "reset" -> ResetOn(k, FALSE)
      [] op = "remaining" -> RemainingFromMemory(k)

EquivCall ==
    \E op \in MethodCalls, walletAddress \in Wallets :
        LET k == getTicketKey(walletAddress)
        IN  /\ redisStore' = SharedCall(op, k).rstore
            /\ memoryStore' = LocalCall(op, k).mstore
            /\ both' = [op |-> op, shared |-> SharedCall(op, k).call.ret,
                        local |-> LocalCall(op, k).call.ret]
            /\ UNCHANGED <<redisUp, redisAvailable, pinged, clock, req, dropHistory,
                           vouchers, qLast, run, drawLast, drawsOk, calm>>
            /\ UNCHANGED <<simVars, vaultVars, adminVars, ledgerVars, wins, moreVars>>

\* time passes; Redis drops the keys whose TTL has run out
EquivTick ==
    /\ clock < MaxTicks * ClockStep
    /\ clock' = clock + ClockStep
    /\ redisStore' = [k \in Keys |-> IF RedisLive(redisStore[k], clock')
                                     THEN redisStore[k] ELSE NoRecord]
    /\ both' = NoAnswers
    /\ UNCHANGED <<redisUp, redisAvailable, pinged, memoryStore, req, dropHistory,
                   vouchers, qLast, run, drawLast, drawsOk, calm>>
    /\ UNCHANGED <<simVars, vaultVars, adminVars, ledgerVars, wins, moreVars>>

EquivNext ==
    \/ EquivCall
    \/ EquivTick

\* ---- one principal within one window, on one store (SpecWindow)
\* Callers call consumeTicket and getRemainingTickets for one principal; the
\* clock stands still, nobody resets and Redis stays up, so that the manager
\* uses its memory store until the ping settles and Redis from then on.
Counted(t) == [wins EXCEPT ![t.call.store] = Min(@ + t.call.ret, MaxRun)]
KeepRest == UNCHANGED <<simVars, vaultVars, adminVars, both, ledgerVars, moreVars>>

WindowConsumeCall(r) ==
    /\ LowestIdle(r)
    /\ \E walletAddress \in Wallets :
        /\ ConsumeStart(r, "consume", walletAddress)
        /\ wins' = IF redisAvailable THEN wins
                   ELSE Counted(ConsumeOn(getTicketKey(walletAddress), FALSE))
    /\ KeepTables
    /\ UNCHANGED <<redisUp, redisAvailable, pinged, clock>>
    /\ KeepRest

WindowConsumeEval(r) ==
    /\ req[r].kind = "consume"
    /\ req[r].pc = "eval"
    /\ Apply(r, "consume", ConsumeOn(req[r].key, redisUp))
    /\ wins' = Counted(ConsumeOn(req[r].key, redisUp))
    /\ Return(r)
    /\ AfterCommand
    /\ KeepTables
    /\ UNCHANGED <<redisUp, pinged, clock>>
    /\ KeepRest

WindowRemainingCall(r) ==
    /\ LowestIdle(r)
    /\ \E walletAddress \in Wallets : RemainingStart(r, "remaining", walletAddress)
    /\ KeepTables
    /\ UNCHANGED <<redisUp, redisAvailable, pinged, clock, wins>>
    /\ KeepRest

WindowRemainingGet(r) ==
    /\ req[r].kind = "remaining"
    /\ req[r].pc = "get"
    /\ RemainingGetStep(r)
    /\ AfterCommand
    /\ KeepTables
    /\ UNCHANGED <<redisUp, pinged, clock, wins>>
    /\ KeepRest

WindowRemainingSetex(r) ==
    /\ req[r].kind = "remaining"
    /\ req[r].pc = "setex"
    /\ RemainingSetexStep(r)
    /\ AfterCommand
    /\ KeepTables
    /\ UNCHANGED <<redisUp, pinged, clock, wins>>
    /\ KeepRest

WindowNext ==
    \/ PingSettles
    \/ \E r \in Requests : WindowConsumeCall(r)
    \/ \E r \in Requests : WindowConsumeEval(r)
    \/ \E r \in Requests : WindowRemainingCall(r)
    \/ \E r \in Requests : WindowRemainingGet(r)
    \/ \E r \in Requests : WindowRemainingSetex(r)

\* ---- validateDropResult as the draw uses it (SpecGate)
\* DropResults passed to validateDropResult: amounts, slots and path lengths
\* at and beside the limits it tests
SamplePath(n) ==
    [i \in 1..n |-> [x |-> (BOARD_WIDTH \div 2) * PEG_SPACING,
                     y |-> (i - 1) * PEG_SPACING, direction |-> "left"]]
DropResultSamples ==
    { [path |-> SamplePath(n), finalSlot |-> slot, amountCents |-> amount] :
        n \in {BOARD_HEIGHT - 1, BOARD_HEIGHT, BOARD_HEIGHT + 1},
        slot \in {-1, 0, BOARD_WIDTH - 1, BOARD_WIDTH},
        amount \in {-3, 0, 1, 100, 101} }

\* plinkoSimulator.validateDropResult(dropResult) and the handler's use of
\* the answer
ValidateCall ==
    /\ Len(checks) < MaxChecks
    /\ \E dropResult \in DropResultSamples :
         checks' = Append(checks, [result |-> dropResult, answer |-> DropGate(dropResult)])
    /\ UNCHANGED <<seedArg, drops, streams>>
    /\ UNCHANGED <<vaultVars, quotaVars, adminVars, restVars>>

GateNext == ValidateCall

\* ---- POST /api/admin/reset-tickets (SpecAdmin)
\* the values of process.env.ADMIN_SECRET (unset, or set) and of
\* req.body.adminSecret (absent, the configured string, another string)
ConfiguredSecret == [defined |-> TRUE, chars |-> << "s" >>]
WrongSecret == [defined |-> TRUE, chars |-> << "w" >>]
AdminSecrets == {Undefined, ConfiguredSecret}
SuppliedSecrets == {Undefined, ConfiguredSecret, WrongSecret}

\* a !== b on strings and undefined
StrictNotEqual(a, b) == a # b

AdminAnswer(status, supplied, key) == [status |-> status, secret |-> supplied, key |-> key]
NoAdminCall == AdminAnswer(0, Undefined, << >>)

AdminInit ==
    /\ adminSecret \in AdminSecrets
    /\ adminLast = NoAdminCall

AdminIdle ==
    /\ adminSecret = Undefined
    /\ adminLast = NoAdminCall

\* the handler up to the first await of resetTickets: 401 'Unauthorized',
\* or resetTickets(walletAddress), which answers from memory at once or
\* sends SETEX to Redis
AdminReset(r) ==
    /\ LowestIdle(r)
    /\ \E walletAddress \in Wallets, supplied \in SuppliedSecrets :
         LET key == getTicketKey(walletAddress)
         IN  IF StrictNotEqual(supplied, adminSecret)
             THEN /\ adminLast' = AdminAnswer(401, supplied, key)
                  /\ UNCHANGED <<req, redisStore, memoryStore, qLast, run>>
             ELSE IF redisAvailable
             THEN /\ Suspend(r, "adminReset", key, "resetex")
                  /\ UNCHANGED <<adminLast, redisStore, memoryStore, qLast, run>>
             ELSE /\ Apply(r, "reset", ResetOn(key, FALSE))
                  /\ adminLast' = AdminAnswer(200, supplied, key)
                  /\ UNCHANGED req
    /\ KeepTables
    /\ UNCHANGED <<redisUp, redisAvailable, pinged, clock, adminSecret>>
    /\ UNCHANGED <<simVars, vaultVars, restVars>>

\* await redis.setex(...) of resetTickets settles and the handler answers
\* { success: true }; only a request whose secret passed the comparison
\* gets here
AdminResetSetex(r) ==
    /\ req[r].kind = "adminReset"
    /\ req[r].pc = "resetex"
    /\ Apply(r, "reset", ResetOn(req[r].key, redisUp))
    /\ Return(r)
    /\ AfterCommand
    /\ adminLast' = AdminAnswer(200, adminSecret, req[r].key)
    /\ KeepTables
    /\ UNCHANGED <<redisUp, pinged, clock, adminSecret>>
    /\ UNCHANGED <<simVars, vaultVars, restVars>>

AdminNext ==
    \/ PingSettles
    \/ RedisFails
    \/ RedisRecovers
    \/ ErrorEvent
    \/ \E r \in Requests : ConsumeCall(r)
    \/ \E r \in Requests : ConsumeEval(r)
    \/ \E r \in Requests : AdminReset(r)
    \/ \E r \in Requests : AdminResetSetex(r)


-----------------------------------------------------------------------------
(***************************************************************************)
(*                           SPECIFICATIONS                                *)
(***************************************************************************)
InitSim == SimInit /\ VaultIdle /\ QuotaIdle /\ AdminIdle /\ RestIdle
SpecSim == InitSim /\ [][SimNext]_vars

InitVault == VaultInit /\ SimIdle /\ QuotaIdle /\ AdminIdle /\ RestIdle
SpecVault == InitVault /\ [][VaultNext]_vars

InitQuota == QuotaInit /\ SimIdle /\ VaultIdle /\ AdminIdle /\ RestIdle
SpecQuota == InitQuota /\ [][QuotaNext]_vars

InitDraw == QuotaInit /\ SimIdle /\ VaultIdle /\ AdminIdle /\ RestIdle
SpecDraw == InitDraw /\ [][DrawNext]_vars

InitAdmin == QuotaInit /\ SimIdle /\ VaultIdle /\ AdminInit /\ RestIdle
SpecAdmin == InitAdmin /\ [][AdminNext]_vars

InitGate == SimIdle /\ VaultIdle /\ QuotaIdle /\ AdminIdle /\ RestIdle
SpecGate == InitGate /\ [][GateNext]_vars

InitEquiv == QuotaInit /\ SimIdle /\ VaultIdle /\ AdminIdle /\ RestIdle
SpecEquiv == InitEquiv /\ [][EquivNext]_vars

InitLedger == QuotaInit /\ SimIdle /\ VaultIdle /\ AdminIdle /\ RestIdle
SpecLedger == InitLedger /\ [][LedgerNext]_vars

InitReentry == VaultInit /\ SimIdle /\ QuotaIdle /\ AdminIdle /\ RestIdle
SpecReentry == InitReentry /\ [][ReentryNext]_vars

\* the list is polled every 60 seconds for as long as the client runs
InitSettle == QuotaInit /\ SimIdle /\ VaultIdle /\ AdminIdle /\ RestIdle
SpecSettle == InitSettle /\ [][SettleNext]_vars /\ WF_vars(FetchVouchers)

InitWindow == QuotaInit /\ SimIdle /\ VaultIdle /\ AdminIdle /\ RestIdle
SpecWindow == InitWindow /\ [][WindowNext]_vars

-----------------------------------------------------------------------------
(***************************************************************************)
(*                     OUTCOME GENERATOR: PROPERTIES                       *)
(***************************************************************************)

\* C8: every DropResult simulateDrop returns, without a seed or with any seed
\* string, has 1 <= amountCents <= 100, 0 <= finalSlot < 7 and a path of
\* length 8.  (Fails: a seed whose 32-bit hash is negative makes rng() return
\* negative values, e.g. "aaaaaa" gives amountCents = -3.)
C8_OutcomeBounds ==
    \A i \in 1..Len(drops) :
        /\ 1 <= drops[i].amountCents /\ drops[i].amountCents <= 100
        /\ 0 <= drops[i].finalSlot /\ drops[i].finalSlot < 7
        /\ Len(drops[i].path) = 8

\* C9: two invocations of simulateDrop with the same explicitly passed seed
\* string return identical path, finalSlot and amountCents.  (Fails for the
\* empty string, which is falsy and so falls through to Math.random.)
C9_SeedDeterminism ==
    (seedArg.defined /\ Len(drops) = 2) => drops[1] = drops[2]

\* the two values an invocation drew after the eight bounces
TierDraw(i) == << streams[i][BOARD_HEIGHT + 1], streams[i][BOARD_HEIGHT + 2] >>

\* C31: the amount of a draw does not depend on the board descent: two
\* runs of simulateDrop whose 9th and 10th samples are equal return the
\* same amountCents, whatever the first eight samples, the path and
\* finalSlot are.
C31_AmountIgnoresDescent ==
    \A i \in DOMAIN drops, j \in DOMAIN drops :
        TierDraw(i) = TierDraw(j) => drops[i].amountCents = drops[j].amountCents

\* two runs with the same tier draw landed in different slots
C31_Witness ==
    /\ Len(drops) = 2
    /\ TierDraw(1) = TierDraw(2)
    /\ drops[1].finalSlot # drops[2].finalSlot
    /\ drops[1].path # drops[2].path
    /\ drops[1].amountCents = drops[2].amountCents

\* the cumulative weight of the first k tiers
CumWeight(k) == TotalWeightFrom(1) - TotalWeightFrom(k + 1)
\* the amount lies in the range of tier k
InTier(amountCents, k) ==
    /\ PRIZE_DISTRIBUTION[k].min <= amountCents
    /\ amountCents <= PRIZE_DISTRIBUTION[k].max
\* the tier sample of invocation i, as a weight: numerator over RNG_MOD
WeightNum(i) == streams[i][BOARD_HEIGHT + 1] * TotalWeightFrom(1)
SampleInRange(i) == 0 <= WeightNum(i) /\ WeightNum(i) < TotalWeightFrom(1) * RNG_MOD

\* C32 as stated: for every tier sample w in [0, 100) the tier is the one
\* whose half-open cumulative range [0,40), [40,70), [70,90), [90,98),
\* [98,100) contains w, and the amount lies in that tier's range.
C32_TierByHalfOpenRanges ==
    \A i \in DOMAIN drops : SampleInRange(i) =>
        \A k \in DOMAIN PRIZE_DISTRIBUTION :
            (/\ CumWeight(k - 1) * RNG_MOD <= WeightNum(i)
             /\ WeightNum(i) < CumWeight(k) * RNG_MOD)
            => InTier(drops[i].amountCents, k)

\* C32, amended: for every tier sample w in [0, 100) the tier is the first
\* one whose cumulative weight is at least w, i.e. the ranges are [0,40],
\* (40,70], (70,90], (90,98], (98,100), and the amount lies in that tier's
\* inclusive range.
C32_TierByClosedRanges ==
    \A i \in DOMAIN drops : SampleInRange(i) =>
        \A k \in DOMAIN PRIZE_DISTRIBUTION :
            (/\ (k = 1 \/ CumWeight(k - 1) * RNG_MOD < WeightNum(i))
             /\ WeightNum(i) <= CumWeight(k) * RNG_MOD)
            => InTier(drops[i].amountCents, k)

\* a run drew the tier sample 0.4 (weight 40) and was paid from the first
\* tier, another drew a sample inside the last tier
C32_Witness ==
    /\ Len(drops) = 2
    /\ WeightNum(1) = CumWeight(1) * RNG_MOD
    /\ InTier(drops[1].amountCents, 1)
    /\ WeightNum(2) > CumWeight(4) * RNG_MOD
    /\ SampleInRange(2)
    /\ drops[2].amountCents = PRIZE_DISTRIBUTION[5].max

\* row r of invocation i: the direction drawn, the column before the row
\* and the column one step in that direction
DrawnDirection(i, r) == IF 2 * streams[i][r] < RNG_MOD THEN "left" ELSE "right"
ColumnBefore(i, r) == IF r = 1 THEN 3 ELSE drops[i].path[r - 1].x
Stepped(i, r) == ColumnBefore(i, r) + (IF DrawnDirection(i, r) = "left" THEN -1 ELSE 1)

\* C33: simulateDrop starts at column 3 and, at each of the 8 rows, moves
\* the column by -1 for a left bit and by +1 for a right bit unless that
\* would leave [0, 6], in which case the column stays; each path entry
\* records the resulting column and the direction drawn, and finalSlot is
\* the column of the last path entry.
C33_DescentStepByStep ==
    \A i \in DOMAIN drops :
        /\ Len(drops[i].path) = 8
        /\ \A r \in 1..8 :
             /\ drops[i].path[r].direction = DrawnDirection(i, r)
             /\ drops[i].path[r].x = IF Stepped(i, r) \in 0..6
                                     THEN Stepped(i, r)
                                     ELSE ColumnBefore(i, r)
        /\ drops[i].finalSlot = drops[i].path[8].x

\* a run was held at the left edge and then moved right
C33_Witness ==
    \E i \in DOMAIN drops :
        /\ \E r \in 2..7 :
             /\ drops[i].path[r].direction = "left"
             /\ drops[i].path[r].x = 0
             /\ drops[i].path[r - 1].x = 0
        /\ drops[i].path[8].direction = "right"
        /\ drops[i].finalSlot > 0

-----------------------------------------------------------------------------
(***************************************************************************)
(*                   REDEMPTION VALIDATOR: PROPERTIES                      *)
(***************************************************************************)

\* the last transaction was a redeem carrying exactly the fields and the
\* signature of a voucher issued for this vault, sent by its recipient
LastIsIssuedRedeem ==
    /\ vLast.op = "redeem"
    /\ \E v \in IssuedVouchers :
         /\ v.vault = VaultAddress
         /\ vLast.args.amountCents = v.amountCents
         /\ vLast.args.recipient = v.recipient
         /\ vLast.args.nonce = v.nonce
         /\ vLast.args.expiry = v.expiry
         /\ vLast.args.signature = SigOf(v)
         /\ AddrOf(v.key) = signer
    /\ vLast.sender = vLast.args.recipient

LastTokens == vLast.args.amountCents * TOKENS_PER_CENT

\* C1: of the redeem calls that carry the same valid voucher fields and
\* signature (caller = recipient, not expired, reserve sufficient, not
\* paused), in whatever order the chain runs them, exactly one succeeds and
\* every other is rejected with AlreadyRedeemed: no commitment is ever
\* redeemed twice, and after any such call exactly one redeem of the
\* commitment has succeeded, the call itself or an earlier one.
C1_ExactlyOnce ==
    /\ \A h \in CallHashes : okCount[h] <= 1
    /\ ( /\ LastIsIssuedRedeem
         /\ blockTime <= vLast.args.expiry
         /\ ~paused
         /\ (vLast.result = "ok" \/ usdcBalance[VaultAddress] >= LastTokens) )
       => /\ vLast.result \in {"ok", "AlreadyRedeemed"}
          /\ okCount[ArgsHash(vLast.args)] = 1
          /\ ArgsHash(vLast.args) \in redeemed

\* a second, identical valid call was rejected with AlreadyRedeemed
C1_Witness ==
    /\ LastIsIssuedRedeem
    /\ blockTime <= vLast.args.expiry
    /\ ~paused
    /\ usdcBalance[VaultAddress] >= LastTokens
    /\ vLast.result = "AlreadyRedeemed"
    /\ okCount[ArgsHash(vLast.args)] = 1

\* C2: a redeem call either marks its commitment consumed and moves exactly
\* the voucher's value from the reserve to the recipient, or leaves the
\* consumed flags and every balance as they were; a call rejected with
\* InsufficientFunds leaves the commitment unconsumed.
C2_FlagAndFundsTogether ==
    [][ vLast'.op = "redeem" =>
          LET c == vLast'.args
              h == ArgsHash(c)
              amountTokens == c.amountCents * TOKENS_PER_CENT
          IN  /\ \/ /\ vLast'.result = "ok"
                    /\ h \notin redeemed
                    /\ redeemed' = redeemed \cup {h}
                    /\ amountTokens > 0
                    /\ usdcBalance' =
                         Transfer(usdcBalance, VaultAddress, c.recipient, amountTokens)
                 \/ /\ vLast'.result # "ok"
                    /\ redeemed' = redeemed
                    /\ usdcBalance' = usdcBalance
              /\ (vLast'.result = "InsufficientFunds" => h \notin redeemed')
      ]_vars

\* a valid voucher was rejected for lack of funds and is still unconsumed
C2_Witness ==
    /\ LastIsIssuedRedeem
    /\ vLast.result = "InsufficientFunds"
    /\ ArgsHash(vLast.args) \notin redeemed
    /\ usdcBalance[VaultAddress] < LastTokens

\* C3: a commitment that is marked consumed stays consumed through every
\* later transaction (redeem, deposit, withdraw, emergencyWithdraw,
\* updateSigner, pause, unpause).
C3_RedeemedIsTerminal ==
    [][ redeemed \subseteq redeemed' ]_vars

\* with a commitment consumed, another commitment was redeemed, and the owner
\* rotated the signer, paused or emptied the reserve
C3_Witness ==
    /\ redeemed # {}
    /\ \/ vLast.op \in {"updateSigner", "pause", "unpause", "emergencyWithdraw",
                          "withdraw", "deposit"} /\ vLast.result = "ok"
       \/ vLast.op = "redeem" /\ vLast.result = "ok" /\ Cardinality(redeemed) >= 2

\* C11: a redeem call the validator takes up (it is not paused) at a time
\* strictly after the expiry it presents is rejected with VoucherExpired,
\* whatever its signature, amount, caller and the consumed state of its
\* commitment; a call at a time up to and including the expiry is never
\* rejected as expired.
C11_ExpiryBoundary ==
    (vLast.op = "redeem" /\ ~paused) =>
        (vLast.result = "VoucherExpired" <=> blockTime > vLast.args.expiry)

\* a commitment consumed in time is presented again after its expiry
C11_Witness ==
    /\ vLast.op = "redeem"
    /\ ~paused
    /\ blockTime > vLast.args.expiry
    /\ ArgsHash(vLast.args) \in redeemed
    /\ vLast.result = "VoucherExpired"

\* the call c presents the nonce, expiry and signature of the voucher v,
\* which the current issuer signed for this vault
PresentsValid(c, v) ==
    /\ v.vault = VaultAddress
    /\ AddrOf(v.key) = signer
    /\ c.nonce = v.nonce
    /\ c.expiry = v.expiry
    /\ c.signature = SigOf(v)

\* the call c is the redemption of v with another amount from 1..100 put in
\* the place of the signed one
AmountAltered(c, v) ==
    /\ PresentsValid(c, v)
    /\ c.recipient = v.recipient
    /\ c.amountCents # v.amountCents
    /\ c.amountCents >= 1
    /\ c.amountCents <= 100

\* C12: a redeem call that presents the fields and the signature of a valid
\* voucher signed for amount a, with a different amount a' (1 <= a' <= 100)
\* in its place, releases no value and consumes nothing; made as the
\* redemption itself would be made (by the recipient, not after the expiry,
\* validator not paused) it is rejected with InvalidSignature.
C12_AlteredAmountRejected ==
    [][ \A v \in IssuedVouchers :
          (vLast'.op = "redeem" /\ AmountAltered(vLast'.args, v)) =>
              /\ vLast'.result # "ok"
              /\ usdcBalance' = usdcBalance
              /\ redeemed' = redeemed
              /\ (/\ ~paused
                  /\ vLast'.sender = v.recipient
                  /\ blockTime <= v.expiry) => vLast'.result = "InvalidSignature"
      ]_vars

\* the altered amount is presented while the reserve could pay it and the
\* signed amount has not been redeemed
C12_Witness ==
    /\ vLast.op = "redeem"
    /\ \E v \in IssuedVouchers :
         /\ AmountAltered(vLast.args, v)
         /\ vLast.sender = v.recipient
         /\ blockTime <= v.expiry
         /\ VoucherHash(v.amountCents, v.recipient, v.nonce, v.expiry, v.vault)
                \notin redeemed
    /\ ~paused
    /\ usdcBalance[VaultAddress] >= LastTokens
    /\ vLast.result = "InvalidSignature"

\* C13: a voucher issued to recipient R never releases value to another
\* address: every successful redeem that presents its signature names R and
\* pays R, whoever's signature it is; of the calls made in time to the
\* validator (not paused) by a caller C other than R with the voucher's
\* amount, nonce, expiry and signature, the one that presents recipient R
\* is rejected with RecipientMismatch and the one that presents recipient C
\* with InvalidSignature.
C13_OnlyToRecipient ==
    [][ \A v \in IssuedVouchers :
          (vLast'.op = "redeem" /\ vLast'.args.signature = SigOf(v)) =>
              LET c == vLast'.args
                  byOther == /\ PresentsValid(c, v)
                             /\ c.amountCents = v.amountCents
                             /\ vLast'.sender # v.recipient
                             /\ ~paused
                             /\ blockTime <= v.expiry
              IN  /\ vLast'.result = "ok" =>
                        /\ c.recipient = v.recipient
                        /\ usdcBalance' = Transfer(usdcBalance, VaultAddress,
                                v.recipient, c.amountCents * TOKENS_PER_CENT)
                  /\ vLast'.result # "ok" => usdcBalance' = usdcBalance
                  /\ (byOther /\ c.recipient = v.recipient) =>
                        vLast'.result = "RecipientMismatch"
                  /\ (byOther /\ c.recipient = vLast'.sender) =>
                        vLast'.result = "InvalidSignature"
      ]_vars

\* another holder presents itself as the recipient of a voucher that could
\* be redeemed and paid at that moment
C13_Witness ==
    /\ vLast.op = "redeem"
    /\ \E v \in IssuedVouchers :
         /\ PresentsValid(vLast.args, v)
         /\ vLast.args.amountCents = v.amountCents
         /\ vLast.sender # v.recipient
         /\ vLast.args.recipient = vLast.sender
         /\ blockTime <= v.expiry
         /\ VoucherHash(v.amountCents, v.recipient, v.nonce, v.expiry, v.vault)
                \notin redeemed
    /\ ~paused
    /\ usdcBalance[VaultAddress] >= LastTokens
    /\ vLast.result = "InvalidSignature"

\* the rejection reasons in the order the claim gives them
ReasonOrder ==
    << "VoucherExpired", "RecipientMismatch", "InvalidAmount",
       "AlreadyRedeemed", "InvalidSignature", "InsufficientFunds" >>

\* the reasons whose condition the call c sent by `sender` violates, each
\* judged by itself on the state the call meets
Violated(c, sender) ==
    LET digest == EthSignedMessageHash(ArgsHash(c))
    IN  { reason \in { ReasonOrder[i] : i \in 1..Len(ReasonOrder) } :
            CASE reason = "VoucherExpired" -> blockTime > c.expiry
              [] reason = "RecipientMismatch" -> c.recipient # sender
              [] reason = "InvalidAmount" -> c.amountCents < 1 \/ c.amountCents > 100
              [] reason = "AlreadyRedeemed" -> ArgsHash(c) \in redeemed
              [] reason = "InvalidSignature" ->
                    \/ c.signature.length # 65
                    \/ c.signature.key = "none"
                    \/ c.signature.digest # digest
                    \/ AddrOf(c.signature.key) # signer
              [] reason = "InsufficientFunds" ->
                    usdcBalance[VaultAddress] < c.amountCents * TOKENS_PER_CENT }

FirstViolated(c, sender) ==
    LET i == CHOOSE i \in 1..Len(ReasonOrder) :
                /\ ReasonOrder[i] \in Violated(c, sender)
                /\ \A j \in 1..(i - 1) : ReasonOrder[j] \notin Violated(c, sender)
    IN  ReasonOrder[i]

\* C14: a redeem call that the validator takes up (it is not paused) and
\* that violates more than one check is rejected with the reason of the
\* first violated check in the order VoucherExpired, RecipientMismatch,
\* InvalidAmount, AlreadyRedeemed, InvalidSignature, InsufficientFunds.
C14_FirstViolatedCheckWins ==
    [][ (/\ vLast'.op = "redeem"
         /\ ~paused
         /\ Cardinality(Violated(vLast'.args, vLast'.sender)) > 1) =>
            vLast'.result = FirstViolated(vLast'.args, vLast'.sender)
      ]_vars

\* a call from a sender that is not the recipient, with an amount out of
\* range and a signature of the wrong length, is rejected for the recipient
C14_Witness ==
    /\ vLast.op = "redeem"
    /\ ~paused
    /\ blockTime <= vLast.args.expiry
    /\ vLast.sender # vLast.args.recipient
    /\ vLast.args.amountCents > 100
    /\ vLast.args.signature.length # 65
    /\ vLast.result = "RecipientMismatch"

\* the administrative operations of the validator
AdminOps ==
    {"pause", "unpause", "updateSigner", "deposit", "withdraw", "emergencyWithdraw"}

\* C15: the administrative operations (pause, unpause, updateSigner,
\* deposit, withdraw, emergencyWithdraw) are executed only for the owner: a
\* call of one of them by any other account is rejected and changes no
\* state of the validator or of the token balances.
C15_AdminOnlyByOwner ==
    [][ (vLast'.op \in AdminOps /\ vLast'.sender # Owner) =>
            /\ vLast'.result # "ok"
            /\ VaultState' = VaultState
      ]_vars

\* C27: redeem marks the commitment consumed before it invokes the token
\* transfer, so a redeem of the same commitment made from within the
\* transfer releases nothing: the flag is set in the storage the transfer
\* runs in, the re-entrant call is rejected (by its body as well as by the
\* guard), and the recipient receives the amount once.
C27_MarkedBeforeTransfer ==
    (reentry.called /\ vLast.op = "redeem") =>
        /\ reentry.marked
        /\ reentry.inner # "ok"
        /\ reentry.body # "ok"
        /\ reentry.paid = vLast.args.amountCents * TOKENS_PER_CENT

\* a redeem succeeded while the reserve would have covered a second payment,
\* and the recipient called again from within the transfer
C27_Witness ==
    /\ reentry.called
    /\ reentry.body = "AlreadyRedeemed"
    /\ vLast.op = "redeem"
    /\ vLast.result = "ok"
    /\ usdcBalance[VaultAddress] >= vLast.args.amountCents * TOKENS_PER_CENT

\* the call presents a voucher that is valid in the current state: the
\* recipient sends it, before its expiry, with an amount in range and a
\* signature of the current signer over its fields, while the vault is
\* not paused
ValidNow(c) ==
    /\ ~paused
    /\ ~Expired(blockTime, c.expiry)
    /\ c.recipient = c.sender
    /\ c.amountCents \in 1..100
    /\ recoverSigner(EthSignedMessageHash(ArgsHash(c)), c.signature) = signer

\* C28: a valid voucher whose redeem was rejected with InsufficientFunds
\* stays redeemable: once the reserve covers its value, a redeem of the
\* same fields and signature by the recipient before expiry succeeds.
C28_StarvedStaysRedeemable ==
    [][ (/\ vLast'.op = "redeem"
         /\ ArgsHash(vLast'.args) \in starved.waiting
         /\ ValidNow(vLast'.args)
         /\ usdcBalance[VaultAddress] >= vLast'.args.amountCents * TOKENS_PER_CENT)
        => vLast'.result = "ok"
      ]_vars

\* a voucher was turned away for want of funds, a deposit followed, and the
\* same call has now been paid
C28_Witness ==
    /\ vLast.op = "redeem"
    /\ vLast.result = "ok"
    /\ ArgsHash(vLast.args) \in starved.paid
    /\ IsRedeemed(redeemed, ArgsHash(vLast.args))
    /\ usdcBalance[vLast.args.recipient] = vLast.args.amountCents * TOKENS_PER_CENT

\* the call presents, unaltered and from its recipient, a voucher the
\* current signer signed for another vault, while this vault is not paused
\* and the voucher has not expired
ForOtherVault(c) ==
    \E v \in IssuedVouchers :
        /\ v.vault # VaultAddress
        /\ AddrOf(v.key) = signer
        /\ c.signature = SigOf(v)
        /\ c.amountCents = v.amountCents
        /\ c.recipient = v.recipient
        /\ c.nonce = v.nonce
        /\ c.expiry = v.expiry
        /\ c.sender = v.recipient
        /\ ~paused
        /\ ~Expired(blockTime, v.expiry)

\* C29: a voucher signed for vault address A is rejected with
\* InvalidSignature by the validator at address B, even when signer,
\* recipient, amount, nonce and expiry are all valid.
C29_BoundToVault ==
    [][ (vLast'.op = "redeem" /\ ForOtherVault(vLast'.args))
            => vLast'.result = "InvalidSignature"
      ]_vars

\* the voucher signed for the other vault was presented by its recipient
\* while the reserve covered it, and was turned away
C29_Witness ==
    /\ vLast.op = "redeem"
    /\ vLast.result = "InvalidSignature"
    /\ ForOtherVault(vLast.args)
    /\ usdcBalance[VaultAddress] >= vLast.args.amountCents * TOKENS_PER_CENT

\* the tokens paid for a set of commitments: amountCents is the first field
\* of what was hashed
RECURSIVE TokensOf(_)
TokensOf(set) ==
    IF set = {} THEN 0
    ELSE LET h == CHOOSE x \in set : TRUE
         IN  h[1] * TOKENS_PER_CENT + TokensOf(set \ {h})

\* C35: in every reachable state of the validator totalVouchers is the
\* number of commitments marked consumed and totalRedeemed the sum of
\* amountCents * 10^4 over them; a rejected redeem changes neither counter.
C35_CountersMatchConsumed ==
    [][ /\ totalVouchers' = Cardinality(redeemed')
        /\ totalRedeemed' = TokensOf(redeemed')
        /\ (vLast'.op = "redeem" /\ vLast'.result # "ok")
              => /\ totalVouchers' = totalVouchers
                 /\ totalRedeemed' = totalRedeemed
      ]_vars

\* two vouchers have been paid and a further redeem has just been rejected
C35_Witness ==
    /\ Cardinality(redeemed) = 2
    /\ totalVouchers = 2
    /\ totalRedeemed = 100 * TOKENS_PER_CENT
    /\ vLast.op = "redeem"
    /\ vLast.result = "AlreadyRedeemed"

\* the call would be paid but for the pause flag: a voucher valid in the
\* current state apart from the flag, not yet consumed, covered by the reserve
PayableButForPause(c) ==
    /\ ~Expired(blockTime, c.expiry)
    /\ c.recipient = c.sender
    /\ c.amountCents \in 1..100
    /\ recoverSigner(EthSignedMessageHash(ArgsHash(c)), c.signature) = signer
    /\ ~IsRedeemed(redeemed, ArgsHash(c))
    /\ usdcBalance[VaultAddress] >= c.amountCents * TOKENS_PER_CENT

\* C36: while the validator is paused every redeem is rejected and changes
\* no state; pause and unpause change nothing but the flag, so that after
\* unpause a voucher that was valid and unredeemed before the pause and
\* has not expired redeems successfully.
C36_PauseBlocksAndReleases ==
    [][ /\ (vLast'.op = "redeem" /\ paused)
              => /\ vLast'.result = "Pausable: paused"
                 /\ VaultState' = VaultState
        /\ (vLast'.op = "pause" /\ vLast'.result = "ok")
              => VaultState' = [VaultState EXCEPT !.paused = TRUE]
        /\ (vLast'.op = "unpause" /\ vLast'.result = "ok")
              => VaultState' = [VaultState EXCEPT !.paused = FALSE]
        /\ (vLast'.op = "redeem" /\ ~paused /\ PayableButForPause(vLast'.args))
              => vLast'.result = "ok"
      ]_vars

\* a voucher that would otherwise be paid has been turned away by the pause
C36_Witness ==
    /\ paused
    /\ vLast.op = "redeem"
    /\ vLast.result = "Pausable: paused"
    /\ PayableButForPause(vLast.args)
    /\ totalVouchers = 1

\* the call presents, unaltered and from its recipient, the voucher v issued
\* for this vault, not yet consumed, while the vault is not paused and the
\* voucher has not expired
PresentsUnredeemed(c, v) ==
    /\ v.vault = VaultAddress
    /\ c.signature = SigOf(v)
    /\ c.amountCents = v.amountCents
    /\ c.recipient = v.recipient
    /\ c.nonce = v.nonce
    /\ c.expiry = v.expiry
    /\ c.sender = v.recipient
    /\ ~paused
    /\ ~Expired(blockTime, v.expiry)
    /\ ~IsRedeemed(redeemed, ArgsHash(c))

\* C37: after updateSigner(S2) a redeem of an unredeemed voucher signed by
\* the previous signer S1 is rejected with InvalidSignature, a voucher
\* signed by S2 is accepted, and every commitment consumed before the
\* rotation remains consumed.
C37_SignerRotation ==
    [][ /\ (vLast'.op = "updateSigner" /\ vLast'.result = "ok")
              => /\ signer' = vLast'.args.recipient
                 /\ redeemed' = redeemed
        /\ \A v \in IssuedVouchers :
              (vLast'.op = "redeem" /\ PresentsUnredeemed(vLast'.args, v))
              => IF AddrOf(v.key) # signer
                 THEN vLast'.result = "InvalidSignature"
                 ELSE usdcBalance[VaultAddress] >= v.amountCents * TOKENS_PER_CENT
                         => vLast'.result = "ok"
      ]_vars

\* after a rotation to the second key, with a commitment consumed before it,
\* a voucher of the first key has been turned away
C37_Witness ==
    /\ signer = AddrOf(RotatedKey)
    /\ redeemed # {}
    /\ \A h \in redeemed : h[3] # "n3"
    /\ vLast.op = "redeem"
    /\ vLast.result = "InvalidSignature"
    /\ \E v \in IssuedVouchers : v.key = IssuerKey /\ PresentsUnredeemed(vLast.args, v)
    /\ usdcBalance[VaultAddress] >= vLast.args.amountCents * TOKENS_PER_CENT

\* after a rotation to the second key a voucher of that key has been paid
RotatedKeyVoucherPaid ==
    /\ signer = AddrOf(RotatedKey)
    /\ vLast.op = "redeem"
    /\ vLast.result = "ok"
    /\ vLast.args.nonce = "n3"

\* what _recoverSigner yields for the signature and fields of a call
RecoveredFor(c) == recoverSigner(EthSignedMessageHash(ArgsHash(c)), c.signature)

\* C39: in every reachable state the configured signer is not the zero
\* address, so a signature whose recovery fails and yields the zero
\* address is never accepted by redeem.
C39_SignerNeverZero ==
    /\ signer # ZeroAddress
    /\ (vLast.op = "redeem" /\ RecoveredFor(vLast.args) = ZeroAddress)
          => vLast.result # "ok"

\* 65 bytes that recover to the zero address were presented for a voucher
\* that passes every earlier check, and were turned away at the signature
C39_Witness ==
    /\ vLast.op = "redeem"
    /\ RecoveredFor(vLast.args) = ZeroAddress
    /\ vLast.result = "InvalidSignature"
    /\ vLast.args.sender = vLast.args.recipient
    /\ vLast.args.amountCents \in 1..100
    /\ usdcBalance[VaultAddress] >= vLast.args.amountCents * TOKENS_PER_CENT

-----------------------------------------------------------------------------
(***************************************************************************)
(*                      QUOTA LEDGER: PROPERTIES                           *)
(***************************************************************************)

\* C4: of N consumeTicket calls made on one principal's record, concurrently
\* or not, starting with allowance A (3 when the record is absent or its
\* window has lapsed), exactly min(N, A) return true; in particular two
\* concurrent calls never both succeed on the last unit.  run counts the
\* calls made in a row on one store's record.
C4_ExactlyMinSucceed ==
    run.store # "none" => run.ok = Min(run.n, run.A)

\* more calls than allowance, some of them in flight at the same time, on the
\* shared store
C4_Witness ==
    /\ run.store = "redis"
    /\ run.overlap
    /\ run.A >= 1
    /\ run.n > run.A
    /\ run.ok = run.A

\* C5: the stored count of every quota record is never negative, and a
\* consumeTicket call that finds a live record with count 0 returns false and
\* leaves count and window expiry as they were.
C5_NeverNegative ==
    /\ \A k \in Keys : redisStore[k].tickets >= 0 /\ memoryStore[k].tickets >= 0
    /\ (qLast.op = "consume" /\ qLast.preLive /\ qLast.pre.tickets = 0)
            => (qLast.ret = 0 /\ qLast.post = qLast.pre)

\* a consumeTicket call has just been refused on an exhausted live record of
\* the process-local store
C5_Witness ==
    /\ qLast.op = "consume"
    /\ qLast.store = "memory"
    /\ qLast.preLive
    /\ qLast.pre.tickets = 0
    /\ qLast.ret = 0

Degraded == pinged /\ ~redisAvailable

\* the name qLast gives to the method a caller of kind `kind` is in
OpOf(kind) == IF kind = "remaining" THEN "getRemaining" ELSE kind

StoredShared(k) ==
    IF RedisLive(redisStore[k], clock) THEN << redisStore[k].tickets >> ELSE << >>
StoredLocal(k) ==
    IF MemoryLive(memoryStore[k], clock) THEN << memoryStore[k].tickets >> ELSE << >>

\* C21: for every sequence of getRemainingTickets, consumeTicket,
\* resetTickets and window expiries on one principal, applied from an empty
\* store to the shared and to the process-local implementation each alone,
\* the two return the same value at every call and hold the same remaining
\* count (in a window ending at the same instant) after every step.
C21_StoresAgree ==
    /\ both.shared = both.local
    /\ \A k \in Keys :
          /\ StoredShared(k) = StoredLocal(k)
          /\ StoredShared(k) # << >> => redisStore[k].expiry = memoryStore[k].expiry

\* a consumeTicket refused by both stores, the window having lapsed and
\* been opened again before
C21_Witness ==
    /\ both.op = "consume"
    /\ both.shared = 0
    /\ both.local = 0
    /\ \E k \in Keys : /\ StoredShared(k) = << 0 >>
                       /\ redisStore[k].expiry > WINDOW_MS

\* C25: for one principal within one 24-hour window, with no reset and no
\* change of store, at most 3 consumeTicket calls return true, however the
\* consumeTicket and getRemainingTickets calls of concurrent requests
\* interleave (several of them arriving while no record exists yet).
C25_AtMostThreePerWindow ==
    \A store \in DOMAIN wins : wins[store] <= FULL_ALLOWANCE

\* C34: a consumeTicket or getRemainingTickets call on a live quota record
\* never changes the record's window expiry (the window ends 24 hours
\* after the record was created or reset), and the first access after the
\* window sees the full allowance of 3 again.
C34_WindowExpiryFixed ==
    [][ qLast'.op # "reset" =>
          /\ \A k \in Keys :
               /\ (RedisLive(redisStore[k], clock) /\ redisStore'[k].present)
                     => redisStore'[k].expiry = redisStore[k].expiry
               /\ MemoryLive(memoryStore[k], clock)
                     => memoryStore'[k].expiry = memoryStore[k].expiry
          /\ (qLast' # qLast /\ qLast'.op = "getRemaining" /\ ~qLast'.preLive)
               => /\ qLast'.ret = FULL_ALLOWANCE
                  /\ qLast'.post.expiry = clock + WINDOW_MS
          /\ (qLast' # qLast /\ qLast'.op = "consume" /\ ~qLast'.preLive)
               => /\ qLast'.ret = 1
                  /\ qLast'.post.tickets = FULL_ALLOWANCE - 1
                  /\ qLast'.post.expiry = clock + WINDOW_MS
      ]_vars

-----------------------------------------------------------------------------
(***************************************************************************)
(*                       DRAW REQUEST: PROPERTIES                          *)
(***************************************************************************)

C18_IssuanceFailureIsDistinct ==
    LET issuance == CatchResponse("voucher")
    IN  (drawLast.status \notin {0, 200} /\ drawLast.failedAt # "voucher") =>
            << drawLast.status, drawLast.error >> # << issuance.status, issuance.error >>

\* the outcome invariant
OutcomeInvariant(result) ==
    /\ result.amountCents \in 1..100
    /\ result.finalSlot \in 0..6
    /\ Len(result.path) = 8

\* C19: for a drop result that violates the outcome invariant (amountCents
\* outside 1..100, finalSlot outside 0..6, or a path of a length other than
\* 8) the draw is aborted with an error, and no drop-history row and no
\* voucher is written for it: the handler returns before its first insert.
C19_InvalidResultAborts ==
    \A i \in 1..Len(checks) :
        ~OutcomeInvariant(checks[i].result) =>
            /\ checks[i].answer.abort
            /\ checks[i].answer.status = 500
            /\ checks[i].answer.history = << >>

\* a result that is out of range in the slot alone is turned down
C19_Witness ==
    \E i \in 1..Len(checks) :
        /\ checks[i].result.finalSlot = 7
        /\ checks[i].result.amountCents = 100
        /\ Len(checks[i].result.path) = 8
        /\ checks[i].answer.abort
        /\ checks[i].answer.history = << >>

\* the tickets a record stands for: a missing or lapsed record is a full
\* allowance
Left(rec, live) == IF live THEN rec.tickets ELSE FULL_ALLOWANCE

\* the request passes from consumeTicket (returned true) to the rest of the handler
TicketTaken(r) ==
    /\ ~(req[r].kind = "drop" /\ req[r].pc # "eval")
    /\ req'[r].kind = "drop"
    /\ req'[r].pc = "history"
\* the request ends with a 500 after consumeTicket returned true
DrawFails(r) ==
    /\ req[r].kind = "drop"
    /\ req[r].pc \in {"history", "voucher", "history2"}
    /\ req'[r].kind = "idle"
    /\ drawLast'.status = 500

\* C26: when a step of a draw request fails after consumeTicket returned
\* true, the ticket stays consumed: consumeTicket left the count one lower
\* than it was, and the failing request does not write the ticket record
\* again.
C26_FailedDrawKeepsTicketSpent ==
    [][ \A r \in Requests :
          /\ TicketTaken(r) =>
                LET k == req'[r].key
                IN \/ /\ memoryStore'[k].tickets =
                             Left(memoryStore[k], MemoryLive(memoryStore[k], clock)) - 1
                      /\ redisStore' = redisStore
                   \/ /\ redisStore'[k].tickets =
                             Left(redisStore[k], RedisLive(redisStore[k], clock)) - 1
                      /\ memoryStore' = memoryStore
          /\ DrawFails(r) => /\ redisStore' = redisStore
                             /\ memoryStore' = memoryStore
      ]_vars

\* a draw took the first ticket, stored its history row and failed at signing
C26_Witness ==
    /\ drawLast.status = 500
    /\ drawLast.failedAt = "sign"
    /\ Len(dropHistory) = 1
    /\ \A r \in Requests : req[r].kind = "idle"
    /\ \E k \in Keys : /\ memoryStore[k].present
                       /\ memoryStore[k].tickets = FULL_ALLOWANCE - 1

-----------------------------------------------------------------------------
(***************************************************************************)
(*                  ADMINISTRATIVE ENDPOINT: PROPERTIES                    *)
(***************************************************************************)

\* the request carries the configured admin secret
CarriesSecret(supplied) == adminSecret.defined /\ supplied = adminSecret

\* C16: POST /api/admin/reset-tickets resets a quota record only when the
\* request carries the configured admin secret: a request without it, also
\* when no secret is configured or none is supplied, is answered 401 and
\* leaves every quota record as it was.
C16_ResetNeedsSecret ==
    [][ (adminLast' # adminLast /\ ~CarriesSecret(adminLast'.secret)) =>
            /\ adminLast'.status = 401
            /\ redisStore' = redisStore
            /\ memoryStore' = memoryStore
      ]_vars

-----------------------------------------------------------------------------
(***************************************************************************)
(*                     VOUCHER LEDGER: PROPERTIES                          *)
(***************************************************************************)

\* the address a spelling stands for
AddressOf(walletAddress) == IF walletAddress = OtherWallet THEN "cd" ELSE "ab"

\* C22: two spellings of one address that differ only in letter case
\* address the same state: the three ticket methods act on one quota record
\* (one key), and getUserByWallet and getVouchersByUser return the same
\* rows for both.
C22_CaseInsensitive ==
    \A w1 \in LedgerWallets, w2 \in LedgerWallets :
        AddressOf(w1) = AddressOf(w2) =>
            /\ getTicketKey(w1) = getTicketKey(w2)
            /\ getUserByWallet(w1) = getUserByWallet(w2)
            /\ getVouchersByUser(w1) = getVouchersByUser(w2)

\* the user is registered, and vouchers are stored for the address in both
\* spellings and for another address
C22_Witness ==
    /\ getUserByWallet(MixedWallet) # {}
    /\ \E i \in DOMAIN vouchers : vouchers[i].recipient = LowerWallet
    /\ \E i \in DOMAIN vouchers : vouchers[i].recipient # LowerWallet
    /\ lLast.op = "getVouchersByUser"
    /\ lLast.arg = MixedWallet

\* no two voucher rows share a nonce
NoncesDiffer(rows) ==
    \A i \in DOMAIN rows, j \in DOMAIN rows : rows[i].nonce = rows[j].nonce => i = j

\* C23: in every reachable state of the ledger no two voucher rows share a
\* nonce: createVoucher with a nonce that is already stored fails and
\* leaves the ledger unchanged.
C23_NonceUnique ==
    [][ /\ NoncesDiffer(vouchers')
        /\ (/\ lLast'.op = "createVoucher"
            /\ \E i \in DOMAIN vouchers : vouchers[i].nonce = lLast'.arg.nonce) =>
               /\ ~lLast'.ok
               /\ vouchers' = vouchers
      ]_vars

\* an insert of a stored nonce for another recipient was refused
C23_Witness ==
    /\ lLast.op = "createVoucher"
    /\ ~lLast.ok
    /\ \E i \in DOMAIN vouchers :
         /\ vouchers[i].nonce = lLast.arg.nonce
         /\ vouchers[i].recipient # lLast.arg.recipient

\* C24: the redemption fields of a voucher row (redeemedAt, txHash) change
\* at most once, from unset to set: markVoucherRedeemed on a row whose
\* redemption fields are set leaves them as they are, and nothing changes
\* recipient, amountCents, nonce, expiry or signature of a stored row.
C24_RedemptionFieldsSetOnce ==
    [][ \A i \in DOMAIN vouchers :
          /\ i \in DOMAIN vouchers'
          /\ vouchers'[i].recipient = vouchers[i].recipient
          /\ vouchers'[i].amountCents = vouchers[i].amountCents
          /\ vouchers'[i].nonce = vouchers[i].nonce
          /\ vouchers'[i].expiry = vouchers[i].expiry
          /\ vouchers'[i].signature = vouchers[i].signature
          /\ ~vouchers[i].redeemedAt.isNull =>
                /\ vouchers'[i].redeemedAt = vouchers[i].redeemedAt
                /\ vouchers'[i].txHash = vouchers[i].txHash
      ]_vars

\* the ledger row of the nonce carries its redemption
LedgerSaysRedeemed(nonce) ==
    \E i \in DOMAIN vouchers :
        /\ vouchers[i].nonce = nonce
        /\ ~vouchers[i].redeemedAt.isNull
        /\ ~vouchers[i].txHash.isNull

\* C30: after a voucher has been redeemed at the validator, the ledger row
\* with its nonce eventually has redeemedAt and txHash set, so that the
\* list read for the owner reports the voucher as redeemed.
C30_LedgerLearnsRedemption ==
    \A id \in NonceIds :
        (generateNonce(id) \in onChain) ~> LedgerSaysRedeemed(generateNonce(id))

====
